---- MODULE Spec2Model ----
(***************************************************************************)
(* Numberblocks image finder: the range-resolve edge function              *)
(* (supabase/functions/scrape-numberblocks), the generate edge function    *)
(* (supabase/functions/generate-numberblock), the cache index and image    *)
(* bucket they share, and the rate-limit helpers of the rate-limiting      *)
(* plan.                                                                   *)
(***************************************************************************)
EXTENDS Integers, Sequences, FiniteSets, TLC

(***************************************************************************)
(* Bounds of the exploration.                                              *)
(***************************************************************************)
FirstNumber == 98           \* smallest number a request may name
WindowSize == 6             \* how many consecutive numbers requests range over
MaxRequests == 2            \* requests (range-resolve and generate) served in one behaviour
MaxLogRows == 2             \* rows of rate_limit_log
MaxMinutes == 6             \* minutes of clock time explored

Numbers == FirstNumber..(FirstNumber + WindowSize - 1)

(***************************************************************************)
(* Program constants.                                                      *)
(***************************************************************************)
batchSize == 5

Null == "null"              \* JavaScript null
Undefined == "undefined"    \* an absent optional field
NoEntry == [storage_path |-> Null, original_url |-> Null]

(***************************************************************************)
(* Number formatting: num.toString().padStart(3, '0').                     *)
(***************************************************************************)
Digit(d) ==
  CASE d = 0 -> "0" [] d = 1 -> "1" [] d = 2 -> "2" [] d = 3 -> "3"
    [] d = 4 -> "4" [] d = 5 -> "5" [] d = 6 -> "6" [] d = 7 -> "7"
    [] d = 8 -> "8" [] d = 9 -> "9"

RECURSIVE toString(_)
toString(n) == IF n < 10 THEN Digit(n) ELSE toString(n \div 10) \o Digit(n % 10)

RECURSIVE PadStart(_, _, _)
PadStart(s, len, fill) == IF Len(s) >= len THEN s ELSE PadStart(fill \o s, len, fill)

(***************************************************************************)
(* Storage locators and URLs.                                              *)
(***************************************************************************)
ContentTypes == {"image/png", "image/jpeg"}

Extension(contentType) ==
  IF contentType = "image/jpeg" THEN "jpg"
  ELSE IF contentType = "image/gif" THEN "gif"
  ELSE IF contentType = "image/webp" THEN "webp"
  ELSE "png"

ScrapeStoragePath(num, contentType) ==
  PadStart(toString(num), 3, "0") \o "." \o Extension(contentType)

AiStoragePath(num) == "ai-" \o PadStart(toString(num), 3, "0") \o ".png"

getPublicUrl(storagePath) ==
  "https://project.supabase.co/storage/v1/object/public/numberblocks-images/" \o storagePath

\* the image URL that extractInfoboxImage finds on the wiki page of num
OriginalImageUrl(num) ==
  "https://static.wikia.nocookie.net/numberblocks/" \o toString(num) \o ".png/revision/latest"

(***************************************************************************)
(* Scrape-worthiness classifier of the smart-scraping plan.                *)
(***************************************************************************)
RECURSIVE BitAnd(_, _)
BitAnd(a, b) ==
  IF a = 0 \/ b = 0 THEN 0
  ELSE (a % 2) * (b % 2) + 2 * BitAnd(a \div 2, b \div 2)

isPowerOf2(n) == n > 0 /\ BitAnd(n, n - 1) = 0

\* the while loop of isPowerOf10
RECURSIVE PowerOf10Loop(_)
PowerOf10Loop(n) ==
  IF n >= 10 THEN (IF n % 10 # 0 THEN FALSE ELSE PowerOf10Loop(n \div 10))
  ELSE n = 1

isPowerOf10(n) == IF n < 10 THEN FALSE ELSE PowerOf10Loop(n)

RECURSIVE FirstDigit(_)
FirstDigit(n) == IF n < 10 THEN n ELSE FirstDigit(n \div 10)

RECURSIVE EveryDigitIs(_, _)
EveryDigitIs(n, d) ==
  IF n < 10 THEN n = d ELSE n % 10 = d /\ EveryDigitIs(n \div 10, d)

\* a check that compares only the last digit with the first
hasRepeatingDigitsFirstLast(n) == IF n < 10 THEN FALSE ELSE n % 10 = FirstDigit(n)

hasRepeatingDigits(n) == IF n < 10 THEN FALSE ELSE EveryDigitIs(n, FirstDigit(n))

IsPerfectSquare(n) == \E k \in 0..n : k * k = n

namedMagnitudes == {1000, 10000, 100000, 1000000, 10000000, 100000000, 1000000000}

shouldScrape(num) ==
  IF num <= 100 THEN TRUE
  ELSE IF num <= 1000 THEN
       \/ num % 10 = 0
       \/ num % 25 = 0
       \/ num % 50 = 0
       \/ IsPerfectSquare(num)
       \/ isPowerOf2(num)
       \/ hasRepeatingDigits(num)
  ELSE isPowerOf10(num) \/ num \in namedMagnitudes

(***************************************************************************)
(* ImageResult records (interface NumberImage) and their return sites.     *)
(***************************************************************************)
NumberImage(num, imageUrl, cached, error, skipScrape, aiGenerated) ==
  [number |-> num, imageUrl |-> imageUrl, cached |-> cached, error |-> error,
   skipScrape |-> skipScrape, aiGenerated |-> aiGenerated]

\* a cache hit whose URL is rebuilt from the number instead of the stored locator
CacheHitResultByConvention(num, storagePath) ==
  NumberImage(num, getPublicUrl(ScrapeStoragePath(num, "image/png")), TRUE, Undefined, FALSE, FALSE)

\* cache hit: { number, imageUrl: publicUrl, pageUrl, cached: true }
CacheHitResult(num, storagePath) ==
  NumberImage(num, getPublicUrl(storagePath), TRUE, Undefined, FALSE, FALSE)

\* a skipped result that carries no reason
SkipResultSilent(num) ==
  NumberImage(num, Null, FALSE, Undefined, TRUE, FALSE)

\* smart loop: { imageUrl: null, error: 'Not expected to have wiki image', skipScrape: true }
SkipResult(num) ==
  NumberImage(num, Null, FALSE, "Not expected to have wiki image", TRUE, FALSE)

\* scrapeAndCacheNumber: { number, imageUrl: null, pageUrl, error }
ErrorResult(num, message) ==
  NumberImage(num, Null, FALSE, message, FALSE, FALSE)

\* a call that reports a failed download or upload as an error
OriginalResultWithReason(num) ==
  NumberImage(num, Null, FALSE, "Failed to cache image", FALSE, FALSE)

\* scrapeAndCacheNumber after a failed download or upload: { number, imageUrl: originalImageUrl, pageUrl }
OriginalResult(num) ==
  NumberImage(num, OriginalImageUrl(num), FALSE, Undefined, FALSE, FALSE)

\* scrapeAndCacheNumber after the upload and the cache upsert: { number, imageUrl: publicUrl, pageUrl, cached: true }
StoredResult(num, storagePath) ==
  NumberImage(num, getPublicUrl(storagePath), TRUE, Undefined, FALSE, FALSE)

NoResult == NumberImage(0, Null, FALSE, Undefined, FALSE, FALSE)

(***************************************************************************)
(* State.                                                                  *)
(***************************************************************************)
VARIABLES
  env,              \* Deno.env: whether each credential is configured
  smart,            \* TRUE when the handler runs the smart-scraping revision of its loop
  cache,            \* table numberblocks_cache: number -> row, NoEntry when there is none
  storage,          \* object paths written to bucket numberblocks-images
  hpc,              \* position of the range-resolve handler
  req,              \* the request the handler is serving
  cachedMap,        \* cachedMap of the handler: number -> storage_path, Null when absent
  results,          \* results of the handler
  numbersToScrape,  \* numbersToScrape of the handler
  i,                \* loop index of the batch loop (0-based)
  task,             \* the scrapeAndCacheNumber call of each number: where it stands, the
                    \* content type of the downloaded image, the fault it met, its return value
  response,         \* the last response of the range-resolve handler
  served,           \* range-resolve requests received so far
  generations,      \* generateWithAI calls made by the current request
  batches,          \* batches dispatched by the current request
  gen,              \* the generation runs: the generate endpoint and generateWithAI
  genServed,        \* generate requests received so far
  rateLimitLog,     \* table rate_limit_log
  now,              \* the clock, in milliseconds
  rateCheck,        \* the answer of checkRateLimits a caller holds for the present log and instant
  arg,              \* the argument of a helper function called on its own
  verdict,          \* << >> before shouldScrape(arg) is called, then <<what it returned>>
  slug,             \* << >> before numberToWord(arg) is called, then <<its result>>
  prompt,           \* the same for numberToWord of the generate endpoint
  hook,             \* the client hook useNumberblocksScraper: its state, refs and loop
  page,             \* a wiki page handed to the extractors, and what each returned
  proxy             \* the image proxy: the request it serves and where it stands

handlerVars == <<hpc, req, cachedMap, results, numbersToScrape, i, task, response, served, generations, batches>>
rateVars == <<rateLimitLog, now, rateCheck>>
fnVars == <<arg, verdict, slug, prompt>>
vars == <<env, smart, cache, storage, handlerVars, gen, genServed, rateVars, fnVars, hook,
          page, proxy>>

Configured == [FIRECRAWL_API_KEY |-> TRUE, OPENAI_API_KEY |-> TRUE]
NoRateCheck == [ip |-> Null, ipRead |-> FALSE, globalRead |-> FALSE, delay |-> 0]
NoRequest == [startNumber |-> 0, endNumber |-> 0, isSingleNumber |-> FALSE]
NoResponse == [sent |-> FALSE, success |-> FALSE, error |-> Undefined, hasData |-> FALSE, data |-> << >>]
NoTask == [stage |-> "none", contentType |-> Undefined, fault |-> "none", result |-> NoResult]
GenProcs == {"endpoint", "inline"}
NoGenResponse == [sent |-> FALSE, success |-> FALSE, error |-> Undefined, imageUrl |-> Undefined, status |-> 0]
IdleGen == [pc |-> "idle", number |-> 0, response |-> NoGenResponse]

(***************************************************************************)
(* Sequence helpers of the handler.                                        *)
(***************************************************************************)
Min(a, b) == IF a <= b THEN a ELSE b

\* Array.prototype.slice(from, to) on a 0-based array
slice(arr, from, to) == SubSeq(arr, from + 1, Min(to, Len(arr)))

\* results.sort((a, b) => a.number - b.number)
RECURSIVE InsertByNumber(_, _)
InsertByNumber(sorted, r) ==
  IF sorted = << >> THEN <<r>>
  ELSE IF r.number - Head(sorted).number < 0 THEN <<r>> \o sorted
  ELSE <<Head(sorted)>> \o InsertByNumber(Tail(sorted), r)

\* a handler that returns results in the order they were gathered
SortByNumberOmitted(arr) == arr

RECURSIVE SortByNumber(_)
SortByNumber(arr) ==
  IF arr = << >> THEN << >>
  ELSE InsertByNumber(SortByNumber(SubSeq(arr, 1, Len(arr) - 1)), arr[Len(arr)])

\* a loop that also queues a cached number for scraping
RECURSIVE PartitionLoopQueuesCached(_, _, _, _, _, _)
PartitionLoopQueuesCached(num, endNumber, cm, skipUnworthy, res, toScrape) ==
  IF num > endNumber THEN [results |-> res, numbersToScrape |-> toScrape]
  ELSE IF cm[num] # Null
    THEN PartitionLoopQueuesCached(num + 1, endNumber, cm, skipUnworthy,
                                   Append(res, CacheHitResult(num, cm[num])), Append(toScrape, num))
  ELSE IF skipUnworthy /\ ~shouldScrape(num)
    THEN PartitionLoopQueuesCached(num + 1, endNumber, cm, skipUnworthy,
                                   Append(res, SkipResult(num)), toScrape)
  ELSE PartitionLoopQueuesCached(num + 1, endNumber, cm, skipUnworthy, res, Append(toScrape, num))

\* a loop that never looks at cachedMap
RECURSIVE PartitionLoopIgnoresCache(_, _, _, _, _, _)
PartitionLoopIgnoresCache(num, endNumber, cm, skipUnworthy, res, toScrape) ==
  IF num > endNumber THEN [results |-> res, numbersToScrape |-> toScrape]
  ELSE IF skipUnworthy /\ ~shouldScrape(num)
    THEN PartitionLoopIgnoresCache(num + 1, endNumber, cm, skipUnworthy,
                                   Append(res, SkipResult(num)), toScrape)
  ELSE PartitionLoopIgnoresCache(num + 1, endNumber, cm, skipUnworthy, res, Append(toScrape, num))

\* the loop "for (let num = startNumber; num <= endNumber; num++)" that splits
\* the range into cache hits, skipped numbers and numbers to scrape
RECURSIVE PartitionLoop(_, _, _, _, _, _)
PartitionLoop(num, endNumber, cm, skipUnworthy, res, toScrape) ==
  IF num > endNumber THEN [results |-> res, numbersToScrape |-> toScrape]
  ELSE IF cm[num] # Null
    THEN PartitionLoop(num + 1, endNumber, cm, skipUnworthy,
                       Append(res, CacheHitResult(num, cm[num])), toScrape)
  ELSE IF skipUnworthy /\ ~shouldScrape(num)
    THEN PartitionLoop(num + 1, endNumber, cm, skipUnworthy,
                       Append(res, SkipResult(num)), toScrape)
  ELSE PartitionLoop(num + 1, endNumber, cm, skipUnworthy, res, Append(toScrape, num))

\* const batch = numbersToScrape.slice(i, i + batchSize)
BatchAt(toScrape, idx) == slice(toScrape, idx, idx + batchSize)

SeqToSet(arr) == {arr[k] : k \in 1..Len(arr)}

\* batch.map(num => scrapeAndCacheNumber(...)): each call runs up to its first await,
\* the fetch of the remote scrape service
StartBatch(tasks, batch) ==
  [n \in Numbers |->
     IF n \in SeqToSet(batch)
     THEN [stage |-> "scrape", contentType |-> Undefined, fault |-> "none", result |-> NoResult]
     ELSE tasks[n]]

\* a loop that goes on as soon as one call of the batch has returned (Promise.race)
BatchSettledByFirst(tasks, batch) == \E n \in SeqToSet(batch) : tasks[n].stage = "done"

\* Promise.all resolves when every call of the batch has returned
BatchSettled(tasks, batch) == \A n \in SeqToSet(batch) : tasks[n].stage = "done"

\* a batch in which one failed call fails the calls next to it
BatchResultsSharedFailure(tasks, batch) ==
  [k \in 1..Len(batch) |->
     IF \E j \in 1..Len(batch) : tasks[batch[j]].result.error # Undefined
     THEN ErrorResult(batch[k], "Batch failed")
     ELSE tasks[batch[k]].result]

\* the value of Promise.all: the results in the order of the batch
BatchResults(tasks, batch) == [k \in 1..Len(batch) |-> tasks[batch[k]].result]

SuccessResponse(data) ==
  [sent |-> TRUE, success |-> TRUE, error |-> Undefined, hasData |-> TRUE, data |-> data]

ErrorResponse(message) ==
  [sent |-> TRUE, success |-> FALSE, error |-> message, hasData |-> FALSE, data |-> << >>]

\* the condition of the auto-generate block of the smart-scraping revision
ShouldAutoGenerate(isSingleNumber, res) ==
  /\ isSingleNumber
  /\ Len(res) = 1
  /\ res[1].imageUrl = Null
  /\ ~res[1].cached

\* Faults, the isSingleNumber flag, content types other than PNG and concurrent
\* generation are explored for the ranges over two numbers of the window; the one
\* long range is the whole window, resolved against a reliable environment.
NoisyNumbers == {FirstNumber + 2, FirstNumber + 3}
ShortRange(lo, hi) == lo \in NoisyNumbers /\ hi \in NoisyNumbers
\* numbers a generate request may name: 0 (rejected) and the first number of short ranges
GenNumbers == {0, FirstNumber + 2}
WholeWindow(lo, hi) == lo = FirstNumber /\ hi = FirstNumber + WindowSize - 1
FaultsAllowed == ShortRange(req.startNumber, req.endNumber)

(***************************************************************************)
(* The range-resolve handler (Deno.serve of scrape-numberblocks).          *)
(***************************************************************************)
\* The end of the batch loop with results res: the auto-generate block of the
\* smart-scraping revision, then results.sort and the success response.
EndOfLoop(res) ==
  IF smart /\ ShouldAutoGenerate(req.isSingleNumber, res)
  THEN /\ hpc' = "autogen"
       /\ results' = res
       /\ response' = response
       /\ gen' = [gen EXCEPT !["inline"] =
                    [pc |-> "ai", number |-> res[1].number, response |-> NoGenResponse]]
       /\ generations' = generations + 1
  ELSE /\ hpc' = "idle"
       /\ results' = SortByNumber(res)
       /\ response' = SuccessResponse(SortByNumber(res))
       /\ gen' = gen
       /\ generations' = generations

\* a handler that does not look at FIRECRAWL_API_KEY
ReceiveRequestWithoutKeyCheck(lo, hi, single, apiKey, bodyOk) ==
  /\ hpc = "idle"
  /\ served + genServed < MaxRequests
  /\ lo <= hi
  /\ \/ ShortRange(lo, hi)
     \/ WholeWindow(lo, hi) /\ apiKey /\ bodyOk /\ single = Undefined /\ served = 0 /\ gen["endpoint"].pc = "idle"
  /\ served' = served + 1
  /\ cachedMap' = [n \in Numbers |-> Null]
  /\ results' = << >>
  /\ numbersToScrape' = << >>
  /\ i' = 0
  /\ task' = [n \in Numbers |-> NoTask]
  /\ batches' = 0
  /\ generations' = 0
  /\ IF FALSE
     THEN /\ response' = ErrorResponse("Firecrawl connector not configured")
          /\ req' = NoRequest
          /\ hpc' = "idle"
     ELSE IF ~bodyOk
     THEN /\ response' = ErrorResponse("Unexpected end of JSON input")
          /\ req' = NoRequest
          /\ hpc' = "idle"
     ELSE /\ response' = NoResponse
          /\ req' = [startNumber |-> lo, endNumber |-> hi,
                     isSingleNumber |-> IF smart
                                        THEN (IF single = Undefined THEN lo = hi ELSE single = "true")
                                        ELSE FALSE]
          /\ hpc' = "lookup"
  /\ UNCHANGED <<proxy, page, hook, env, fnVars, smart, cache, storage, gen, genServed, rateVars>>

\* The request arrives: credential check, req.json(), and the cache query is issued.
ReceiveRequest(lo, hi, single, apiKey, bodyOk) ==
  /\ hpc = "idle"
  /\ served + genServed < MaxRequests
  /\ lo <= hi
  /\ \/ ShortRange(lo, hi)
     \/ WholeWindow(lo, hi) /\ apiKey /\ bodyOk /\ single = Undefined /\ served = 0 /\ gen["endpoint"].pc = "idle"
  /\ served' = served + 1
  /\ cachedMap' = [n \in Numbers |-> Null]
  /\ results' = << >>
  /\ numbersToScrape' = << >>
  /\ i' = 0
  /\ task' = [n \in Numbers |-> NoTask]
  /\ batches' = 0
  /\ generations' = 0
  /\ IF ~apiKey
     THEN /\ response' = ErrorResponse("Firecrawl connector not configured")
          /\ req' = NoRequest
          /\ hpc' = "idle"
     ELSE IF ~bodyOk
     THEN /\ response' = ErrorResponse("Unexpected end of JSON input")
          /\ req' = NoRequest
          /\ hpc' = "idle"
     ELSE /\ response' = NoResponse
          /\ req' = [startNumber |-> lo, endNumber |-> hi,
                     isSingleNumber |-> IF smart
                                        THEN (IF single = Undefined THEN lo = hi ELSE single = "true")
                                        ELSE FALSE]
          /\ hpc' = "lookup"
  /\ UNCHANGED <<proxy, page, hook, env, fnVars, smart, cache, storage, gen, genServed, rateVars>>

\* a handler that answers with an error when the cache query fails
CacheLookupReturnsFailsClosed(readOk) ==
  /\ hpc = "lookup"
  /\ readOk \/ FaultsAllowed
  /\ LET cm == [n \in Numbers |->
                  IF readOk /\ n >= req.startNumber /\ n <= req.endNumber
                  THEN cache[n].storage_path ELSE Null]
         part == PartitionLoop(req.startNumber, req.endNumber, cm, smart, << >>, << >>)
     IN /\ cachedMap' = cm
        /\ numbersToScrape' = IF readOk THEN part.numbersToScrape ELSE << >>
        /\ IF ~readOk
           THEN /\ hpc' = "idle"
                /\ response' = ErrorResponse("Failed to process")
                /\ UNCHANGED <<results, task, batches, gen, generations>>
           ELSE IF 0 < Len(part.numbersToScrape)
           THEN /\ task' = StartBatch(task, BatchAt(part.numbersToScrape, 0))
                /\ batches' = batches + 1
                /\ hpc' = "batch"
                /\ results' = part.results
                /\ UNCHANGED <<response, gen, generations>>
           ELSE /\ EndOfLoop(part.results)
                /\ UNCHANGED <<task, batches>>
  /\ UNCHANGED <<proxy, page, hook, env, fnVars, smart, cache, storage, req, i, served, genServed, rateVars>>

\* The cache query returns: cachedMap is built, the range is split, and the first
\* batch is dispatched (or, with nothing to scrape, the response is sent).
CacheLookupReturns(readOk) ==
  /\ hpc = "lookup"
  /\ readOk \/ FaultsAllowed
  /\ LET cm == [n \in Numbers |->
                  IF readOk /\ n >= req.startNumber /\ n <= req.endNumber
                  THEN cache[n].storage_path ELSE Null]
         part == PartitionLoop(req.startNumber, req.endNumber, cm, smart, << >>, << >>)
     IN /\ cachedMap' = cm
        /\ numbersToScrape' = part.numbersToScrape
        /\ IF 0 < Len(part.numbersToScrape)
           THEN /\ task' = StartBatch(task, BatchAt(part.numbersToScrape, 0))
                /\ batches' = batches + 1
                /\ hpc' = "batch"
                /\ results' = part.results
                /\ UNCHANGED <<response, gen, generations>>
           ELSE /\ EndOfLoop(part.results)
                /\ UNCHANGED <<task, batches>>
  /\ UNCHANGED <<proxy, page, hook, env, fnVars, smart, cache, storage, req, i, served, genServed, rateVars>>

\* scrapeAndCacheNumber(n): the remote scrape call returns and the page is searched
\* for the image; on success the image download is issued.
ScrapeReturns(n, outcome) ==
  /\ hpc = "batch"
  /\ task[n].stage = "scrape"
  /\ outcome = "ok" \/ FaultsAllowed
  /\ task' = [task EXCEPT ![n] =
       CASE outcome = "throw" ->
              [stage |-> "done", contentType |-> Undefined, fault |-> "scrape threw",
               result |-> ErrorResult(n, "fetch failed")]
         [] outcome = "notOk" ->
              [stage |-> "done", contentType |-> Undefined, fault |-> "scrape not ok",
               result |-> ErrorResult(n, "Request failed")]
         [] outcome = "noImage" ->
              [stage |-> "done", contentType |-> Undefined, fault |-> "no image extracted",
               result |-> ErrorResult(n, "No image found")]
         [] OTHER ->
              [stage |-> "download", contentType |-> Undefined, fault |-> "none",
               result |-> NoResult]]
  /\ UNCHANGED <<proxy, page, hook, env, fnVars, smart, cache, storage, hpc, req, cachedMap, results, numbersToScrape, i,
                 response, served, generations, batches, gen, genServed, rateVars>>

\* scrapeAndCacheNumber(n): the image download returns; on success the storage
\* upload is issued.
DownloadReturns(n, outcome, contentType) ==
  /\ hpc = "batch"
  /\ task[n].stage = "download"
  /\ (outcome = "ok" /\ contentType = "image/png") \/ FaultsAllowed
  /\ task' = [task EXCEPT ![n] =
       CASE outcome = "throw" ->
              [stage |-> "done", contentType |-> Undefined, fault |-> "download threw",
               result |-> ErrorResult(n, "fetch failed")]
         [] outcome = "notOk" ->
              [stage |-> "done", contentType |-> Undefined, fault |-> "download not ok",
               result |-> OriginalResult(n)]
         [] OTHER ->
              [stage |-> "upload", contentType |-> contentType, fault |-> "none",
               result |-> NoResult]]
  /\ UNCHANGED <<proxy, page, hook, env, fnVars, smart, cache, storage, hpc, req, cachedMap, results, numbersToScrape, i,
                 response, served, generations, batches, gen, genServed, rateVars>>

\* a call that does not look at uploadError and goes on to the cache-index upsert
UploadReturnsUnchecked(n, outcome) ==
  /\ hpc = "batch"
  /\ task[n].stage = "upload"
  /\ outcome = "ok" \/ FaultsAllowed
  /\ task' = [task EXCEPT ![n].stage = "upsert"]
  /\ storage' = IF outcome = "error" THEN storage
                ELSE storage \cup {ScrapeStoragePath(n, task[n].contentType)}
  /\ UNCHANGED <<proxy, page, hook, env, fnVars, smart, cache, hpc, req, cachedMap, results, numbersToScrape, i,
                 response, served, generations, batches, gen, genServed, rateVars>>

\* scrapeAndCacheNumber(n): the storage upload returns; on success the object is in
\* the bucket and the cache-index upsert is issued.
UploadReturns(n, outcome) ==
  /\ hpc = "batch"
  /\ task[n].stage = "upload"
  /\ outcome = "ok" \/ FaultsAllowed
  /\ IF outcome = "error"
     THEN /\ task' = [task EXCEPT ![n] =
                [stage |-> "done", contentType |-> task[n].contentType, fault |-> "upload failed",
                 result |-> OriginalResult(n)]]
          /\ storage' = storage
     ELSE /\ task' = [task EXCEPT ![n].stage = "upsert"]
          /\ storage' = storage \cup {ScrapeStoragePath(n, task[n].contentType)}
  /\ UNCHANGED <<proxy, page, hook, env, fnVars, smart, cache, hpc, req, cachedMap, results, numbersToScrape, i,
                 response, served, generations, batches, gen, genServed, rateVars>>

\* scrapeAndCacheNumber(n): the cache-index upsert returns (its result is not
\* inspected) and the call returns the public URL.
UpsertReturns(n, outcome) ==
  /\ hpc = "batch"
  /\ task[n].stage = "upsert"
  /\ outcome = "ok" \/ FaultsAllowed
  /\ LET storagePath == ScrapeStoragePath(n, task[n].contentType)
     IN /\ cache' = IF outcome = "ok"
                    THEN [cache EXCEPT ![n] = [storage_path |-> storagePath,
                                               original_url |-> OriginalImageUrl(n)]]
                    ELSE cache
        /\ task' = [task EXCEPT ![n] =
              [stage |-> "done", contentType |-> task[n].contentType,
               fault |-> IF outcome = "ok" THEN "none" ELSE "upsert failed",
               result |-> StoredResult(n, storagePath)]]
  /\ UNCHANGED <<proxy, page, hook, env, fnVars, smart, storage, hpc, req, cachedMap, results, numbersToScrape, i,
                 response, served, generations, batches, gen, genServed, rateVars>>

\* Promise.all of the batch resolves: its results are appended; then either the
\* pause before the next batch starts or the loop ends.
BatchCompletes ==
  /\ hpc = "batch"
  /\ BatchSettled(task, BatchAt(numbersToScrape, i))
  /\ LET res == results \o BatchResults(task, BatchAt(numbersToScrape, i))
     IN IF i + batchSize < Len(numbersToScrape)
        THEN /\ hpc' = "pause"
             /\ results' = res
             /\ UNCHANGED <<response, gen, generations>>
        ELSE EndOfLoop(res)
  /\ UNCHANGED <<proxy, page, hook, env, fnVars, smart, cache, storage, req, cachedMap, numbersToScrape, i, task,
                 served, batches, genServed, rateVars>>

\* The one-second pause between batches ends and the next batch is dispatched.
PauseElapses ==
  /\ hpc = "pause"
  /\ i' = i + batchSize
  /\ task' = StartBatch(task, BatchAt(numbersToScrape, i + batchSize))
  /\ batches' = batches + 1
  /\ hpc' = "batch"
  /\ UNCHANGED <<proxy, page, hook, env, fnVars, smart, cache, storage, req, cachedMap, results, numbersToScrape,
                 response, served, generations, gen, genServed, rateVars>>

\* generateWithAI returns to the auto-generate block; on success the single result
\* is overwritten, then the response is sent.
AutoGenerateReturns ==
  /\ hpc = "autogen"
  /\ gen["inline"].response.sent
  /\ LET generated == gen["inline"].response
         res == IF generated.success
                THEN <<[results[1] EXCEPT !.imageUrl = generated.imageUrl,
                                          !.aiGenerated = TRUE,
                                          !.error = Undefined]>>
                ELSE results
     IN /\ results' = SortByNumber(res)
        /\ response' = SuccessResponse(SortByNumber(res))
  /\ hpc' = "idle"
  /\ gen' = [gen EXCEPT !["inline"] = IdleGen]
  /\ UNCHANGED <<proxy, page, hook, env, fnVars, smart, cache, storage, req, cachedMap, numbersToScrape, i, task,
                 served, generations, batches, genServed, rateVars>>

(***************************************************************************)
(* Image generation: the generate endpoint (Deno.serve of                  *)
(* generate-numberblock) and, run by the auto-generate block of the        *)
(* range-resolve handler, generateWithAI.                                  *)
(***************************************************************************)
GenSuccess(imageUrl) ==
  [sent |-> TRUE, success |-> TRUE, error |-> Undefined, imageUrl |-> imageUrl, status |-> 200]

GenError(message, status) ==
  [sent |-> TRUE, success |-> FALSE, error |-> message, imageUrl |-> Undefined, status |-> status]

\* A generate request arrives: credential check, req.json(), validation of number,
\* and the image-generation call is issued.
GenReceive(isNumber, number, apiKey) ==
  /\ gen["endpoint"].pc = "idle"
  /\ served + genServed < MaxRequests
  /\ hpc = "idle" \/ FaultsAllowed
  /\ genServed' = genServed + 1
  /\ gen' = [gen EXCEPT !["endpoint"] =
       IF ~apiKey
       THEN [pc |-> "idle", number |-> 0,
             response |-> GenError("OPENAI_API_KEY is not configured", 500)]
       ELSE IF number = 0 \/ ~isNumber
       THEN [pc |-> "idle", number |-> 0, response |-> GenError("Number is required", 400)]
       ELSE [pc |-> "ai", number |-> number, response |-> NoGenResponse]]
  /\ UNCHANGED <<proxy, page, hook, env, fnVars, smart, cache, storage, handlerVars, rateVars>>

\* The image-generation call returns; on success the storage upload is issued.
GenAIReturns(p, outcome) ==
  /\ gen[p].pc = "ai"
  /\ gen' = [gen EXCEPT ![p] =
       CASE outcome = "throw" ->
              [pc |-> "idle", number |-> gen[p].number, response |-> GenError("fetch failed", 500)]
         [] outcome = "429" ->
              [pc |-> "idle", number |-> gen[p].number,
               response |-> GenError("Rate limit exceeded. Please try again later.", 429)]
         [] outcome = "notOk" ->
              [pc |-> "idle", number |-> gen[p].number,
               response |-> GenError("Failed to generate image", 500)]
         [] outcome = "noImage" ->
              [pc |-> "idle", number |-> gen[p].number,
               response |-> GenError("No image generated", 500)]
         [] OTHER ->
              [pc |-> "upload", number |-> gen[p].number, response |-> NoGenResponse]]
  /\ UNCHANGED <<proxy, page, hook, env, fnVars, smart, cache, storage, handlerVars, genServed, rateVars>>

\* an endpoint that writes the cache entry before it looks at the upload error
GenUploadReturnsIndexesFirst(p, outcome) ==
  /\ gen[p].pc = "upload"
  /\ cache' = [cache EXCEPT ![gen[p].number] =
                 [storage_path |-> AiStoragePath(gen[p].number), original_url |-> "ai-generated"]]
  /\ IF outcome = "error"
     THEN /\ gen' = [gen EXCEPT ![p] =
                [pc |-> "idle", number |-> gen[p].number,
                 response |-> GenError("Failed to save image", 500)]]
          /\ storage' = storage
     ELSE /\ gen' = [gen EXCEPT ![p].pc = "upsert"]
          /\ storage' = storage \cup {AiStoragePath(gen[p].number)}
  /\ UNCHANGED <<proxy, page, hook, env, fnVars, smart, handlerVars, genServed, rateVars>>

\* The storage upload returns; on success the object is in the bucket and the
\* cache-index upsert is issued.
GenUploadReturns(p, outcome) ==
  /\ gen[p].pc = "upload"
  /\ IF outcome = "error"
     THEN /\ gen' = [gen EXCEPT ![p] =
                [pc |-> "idle", number |-> gen[p].number,
                 response |-> GenError("Failed to save image", 500)]]
          /\ storage' = storage
     ELSE /\ gen' = [gen EXCEPT ![p].pc = "upsert"]
          /\ storage' = storage \cup {AiStoragePath(gen[p].number)}
  /\ UNCHANGED <<proxy, page, hook, env, fnVars, smart, cache, handlerVars, genServed, rateVars>>

\* The cache-index upsert returns (its result is not inspected) and the public URL
\* is answered.
GenUpsertReturns(p, outcome) ==
  /\ gen[p].pc = "upsert"
  /\ LET storagePath == AiStoragePath(gen[p].number)
     IN /\ cache' = IF outcome = "ok"
                    THEN [cache EXCEPT ![gen[p].number] =
                            [storage_path |-> storagePath, original_url |-> "ai-generated"]]
                    ELSE cache
        /\ gen' = [gen EXCEPT ![p] =
              [pc |-> "idle", number |-> gen[p].number,
               response |-> GenSuccess(getPublicUrl(storagePath))]]
  /\ UNCHANGED <<proxy, page, hook, env, fnVars, smart, storage, handlerVars, genServed, rateVars>>

\* ---------------------------------------------------------------------------
\* The client hook useNumberblocksScraper (src/pages/Index.tsx): scrapeImages
\* walks the range in sub-requests of clientBatchSize numbers, one at a time,
\* and stopScraping raises the cancellation flag the loop reads.  The hook
\* suspends only at the await of the API call, so one action runs from the
\* invocation to the first call and one from each answer to the next call or
\* to the finally block.

clientBatchSize == 5

NoToast == "none"

IdleProgress == [current |-> 0, total |-> 0, phase |-> "idle"]

\* Answers of numberblocksApi.scrapeImages: the handler's answer for the
\* sub-range (one result per number, ascending), a success=false answer, or
\* an exception.  The loop reads nothing of a result but its presence, so a
\* result is modelled by its number.
BatchData(lo, hi) == [k \in 1..(hi - lo + 1) |-> [number |-> lo + k - 1]]

ApiAnswer(outcome, lo, hi) ==
  CASE outcome = "ok"     -> [success |-> TRUE, data |-> BatchData(lo, hi)]
    [] outcome = "failed" -> [success |-> FALSE, data |-> << >>]
    [] OTHER              -> [success |-> FALSE, data |-> << >>]

ApiOutcomes == {"ok", "failed", "threw"}

InitialHook ==
  [ pc           |-> "idle",      \* "await" while an API call is in flight
    isLoading    |-> FALSE,
    images       |-> << >>,
    progress     |-> IdleProgress,
    cancelledRef |-> FALSE,
    startNumber  |-> 0,
    endNumber    |-> 0,
    i            |-> 0,
    allResults   |-> << >>,
    toast        |-> NoToast,     \* title of the latest toast of the run
    outcome      |-> NoToast,     \* how the latest API call ended
    issued       |-> << >> ]      \* sub-ranges requested by the run so far

\* a batch end that is not clamped to the end of the range
BatchEndUnclamped(h) == h.i + clientBatchSize - 1

BatchEnd(h) == Min(h.i + clientBatchSize - 1, h.endNumber)

\* a finally block that resets the progress and leaves isLoading set
FinallyKeepsLoading(h) ==
  [h EXCEPT !.pc = "idle", !.progress = IdleProgress]

\* finally { setIsLoading(false); setProgress(idle) }
Finally(h) ==
  [h EXCEPT !.pc = "idle", !.isLoading = FALSE, !.progress = IdleProgress]

\* The head of the for loop, up to the next await or to the end of the run.
LoopHead(h) ==
  IF h.i <= h.endNumber
  THEN IF h.cancelledRef
       THEN Finally([h EXCEPT !.toast = "Scraping stopped"])
       ELSE [h EXCEPT !.pc = "await",
                      !.issued = Append(@, <<h.i, BatchEnd(h)>>)]
  ELSE Finally(IF ~h.cancelledRef
               THEN [h EXCEPT !.toast = "Scraping complete!"]
               ELSE h)

\* if (response.success && answer.data) { allResults.push(...); setImages(...) }
KeepResults(h, answer) ==
  IF answer.success
  THEN [h EXCEPT !.allResults = @ \o answer.data,
                 !.images = h.allResults \o answer.data]
  ELSE h

ScrapeImages(startNumber, endNumber) ==
  /\ hook.pc = "idle"
  /\ startNumber <= endNumber
  /\ hook' = LoopHead([hook EXCEPT
                 !.isLoading = TRUE,
                 !.images = << >>,
                 !.cancelledRef = FALSE,
                 !.progress = [current |-> 0,
                               total |-> endNumber - startNumber + 1,
                               phase |-> "scraping"],
                 !.startNumber = startNumber,
                 !.endNumber = endNumber,
                 !.i = startNumber,
                 !.allResults = << >>,
                 !.toast = NoToast,
                 !.outcome = NoToast,
                 !.issued = << >>])
  /\ UNCHANGED <<proxy, page, env, fnVars, smart, cache, storage, handlerVars, gen, genServed,
                 rateVars>>

\* The Stop button replaces the search button while isLoading.
StopScraping ==
  /\ hook.isLoading
  /\ hook' = [hook EXCEPT !.cancelledRef = TRUE]
  /\ UNCHANGED <<proxy, page, env, fnVars, smart, cache, storage, handlerVars, gen, genServed,
                 rateVars>>

BatchReturnsDropsInFlight(outcome) ==
  /\ hook.pc = "await"
  /\ LET answer   == ApiAnswer(outcome, hook.i, BatchEnd(hook))
         total    == hook.endNumber - hook.startNumber + 1
         answered == [hook EXCEPT !.outcome = outcome]
     IN  hook' =
           IF outcome = "threw"
           THEN Finally([answered EXCEPT !.toast = "Error"])
           ELSE IF hook.cancelledRef
           THEN Finally([answered EXCEPT !.toast = "Scraping stopped"])
           ELSE LoopHead([KeepResults(answered, answer) EXCEPT
                    !.progress = [current |-> Min(BatchEnd(hook) - hook.startNumber + 1,
                                                  total),
                                  total |-> total,
                                  phase |-> "scraping"],
                    !.i = @ + clientBatchSize])
  /\ UNCHANGED <<proxy, page, env, fnVars, smart, cache, storage, handlerVars, gen, genServed,
                 rateVars>>

\* The API call of the loop returns or throws; the run goes on to the next
\* call, or ends.
BatchReturns(outcome) ==
  /\ hook.pc = "await"
  /\ LET answer   == ApiAnswer(outcome, hook.i, BatchEnd(hook))
         total    == hook.endNumber - hook.startNumber + 1
         answered == [hook EXCEPT !.outcome = outcome]
     IN  hook' =
           IF outcome = "threw"
           THEN Finally([answered EXCEPT !.toast = "Error"])
           ELSE IF hook.cancelledRef
           THEN Finally([KeepResults(answered, answer) EXCEPT
                           !.toast = "Scraping stopped"])
           ELSE LoopHead([KeepResults(answered, answer) EXCEPT
                    !.progress = [current |-> Min(BatchEnd(hook) - hook.startNumber + 1,
                                                  total),
                                  total |-> total,
                                  phase |-> "scraping"],
                    !.i = @ + clientBatchSize])
  /\ UNCHANGED <<proxy, page, env, fnVars, smart, cache, storage, handlerVars, gen, genServed,
                 rateVars>>

(***************************************************************************)
(* The system: one range-resolve handler and the generate endpoint over    *)
(* the shared cache index and bucket.                                      *)
(***************************************************************************)
InitSystem ==
  /\ hook = InitialHook
  /\ env \in [FIRECRAWL_API_KEY : BOOLEAN, OPENAI_API_KEY : BOOLEAN]
  /\ smart \in BOOLEAN
  /\ cache = [n \in Numbers |-> NoEntry]
  /\ storage = {}
  /\ hpc = "idle"
  /\ req = NoRequest
  /\ cachedMap = [n \in Numbers |-> Null]
  /\ results = << >>
  /\ numbersToScrape = << >>
  /\ i = 0
  /\ task = [n \in Numbers |-> NoTask]
  /\ response = NoResponse
  /\ served = 0
  /\ generations = 0
  /\ batches = 0
  /\ gen = [p \in GenProcs |-> IdleGen]
  /\ genServed = 0
  /\ rateLimitLog = << >>
  /\ now = 0
  /\ rateCheck = NoRateCheck

(***************************************************************************)
(* The image proxy (functions/proxy-image/index.ts).  The file holds two   *)
(* handlers: the first fetches whatever it is given, the second validates  *)
(* origin, domain and size and arms a timer around the fetch.              *)
(* proxy.validating tells which of the two serves.  A hostname is the      *)
(* sequence of its labels; time advances in periods of the fetch timeout.  *)
(***************************************************************************)
ALLOWED_IMAGE_DOMAINS ==
  { <<"static", "wikia", "nocookie", "net">>,
    <<"hfiasynirtqtbbqoviol", "supabase", "co">> }

MAX_IMAGE_SIZE == 10 * 1024 * 1024

FetchTimeout == 15000

MaxPeriods == 2

\* url.hostname.endsWith('.' + domain)
EndsWithDomain(hostname, domain) ==
  /\ Len(hostname) > Len(domain)
  /\ SubSeq(hostname, Len(hostname) - Len(domain) + 1, Len(hostname)) = domain

\* isDomainAllowed(imageUrl).valid; new URL(imageUrl) throws on what is no URL.
isDomainAllowed(imageUrl) ==
  IF ~imageUrl.parses THEN FALSE
  ELSE \E domain \in ALLOWED_IMAGE_DOMAINS :
         imageUrl.hostname = domain \/ EndsWithDomain(imageUrl.hostname, domain)

UrlOf(hostname) == [given |-> TRUE, parses |-> TRUE, hostname |-> hostname]
MissingUrl == [given |-> FALSE, parses |-> FALSE, hostname |-> << >>]
MalformedUrl == [given |-> TRUE, parses |-> FALSE, hostname |-> << >>]

\* imageUrl of a request body.
ImageUrls ==
  { MissingUrl, MalformedUrl,
    UrlOf(<<"static", "wikia", "nocookie", "net">>),
    UrlOf(<<"vignette", "static", "wikia", "nocookie", "net">>),
    UrlOf(<<"example", "com">>),
    UrlOf(<<"static", "wikia", "nocookie", "net", "example", "com">>) }

\* Byte counts an upstream may declare or deliver.
ImageSizes == {1024, MAX_IMAGE_SIZE, MAX_IMAGE_SIZE + 1}

\* The content-length header: absent, a number, or text parseInt makes NaN of.
\* A number is modelled as <<n>>, the others as << >>: both skip the check.
ContentLengths == {<< >>} \cup {<<n>> : n \in ImageSizes}

NoProxyResponse == [sent |-> FALSE, success |-> FALSE, status |-> 0, error |-> ""]

ProxyFailure(status, error) ==
  [sent |-> TRUE, success |-> FALSE, status |-> status, error |-> error]

ProxySuccess == [sent |-> TRUE, success |-> TRUE, status |-> 200, error |-> ""]

NoProxy(validating) ==
  [ validating    |-> validating,
    pc            |-> "idle",       \* "fetch", "body" at the two awaits
    imageUrl      |-> MissingUrl,
    fetched       |-> FALSE,        \* an outbound fetch was issued for the request
    timer         |-> FALSE,        \* the abort timer is armed
    elapsed       |-> 0,            \* time since the fetch was issued
    contentLength |-> << >>,
    byteLength    |-> 0,            \* bytes of imageData, 0 until downloaded
    response      |-> NoProxyResponse ]

Answer(p, answer) == [p EXCEPT !.pc = "idle", !.response = answer]

\* A request arrives: the handler runs to its answer or to the fetch.
ProxyReceive(originAllowed, bodyOk, imageUrl) ==
  /\ proxy.pc = "idle"
  /\ LET fresh == [NoProxy(proxy.validating) EXCEPT !.imageUrl = imageUrl]
     IN  proxy' =
           IF proxy.validating /\ ~originAllowed
           THEN Answer(fresh, ProxyFailure(403, "Unauthorized origin"))
           ELSE IF ~bodyOk
           THEN Answer(fresh, ProxyFailure(500, "Failed to proxy image"))
           ELSE IF ~imageUrl.given
           THEN Answer(fresh, ProxyFailure(400, "Image URL is required"))
           ELSE IF proxy.validating /\ ~isDomainAllowed(imageUrl)
           THEN Answer(fresh, ProxyFailure(403, "Domain is not allowed"))
           ELSE IF ~imageUrl.parses
           THEN Answer(fresh, ProxyFailure(500, "Invalid URL"))
           ELSE [fresh EXCEPT !.pc = "fetch", !.fetched = TRUE,
                              !.timer = proxy.validating]
  /\ UNCHANGED <<page, hook, env, fnVars, smart, cache, storage, handlerVars, gen,
                 genServed, rateVars>>

\* A period of the timeout passes while the handler waits; an armed timer
\* does not let its moment pass.
ProxyTick ==
  /\ proxy.pc \in {"fetch", "body"}
  /\ proxy.elapsed + FetchTimeout <= MaxPeriods * FetchTimeout
  /\ proxy.timer => proxy.elapsed < FetchTimeout
  /\ proxy' = [proxy EXCEPT !.elapsed = @ + FetchTimeout]
  /\ UNCHANGED <<page, hook, env, fnVars, smart, cache, storage, handlerVars, gen,
                 genServed, rateVars>>

\* setTimeout(() => controller.abort(), 15000): the fetch rejects with AbortError.
TimerFires ==
  /\ proxy.pc = "fetch"
  /\ proxy.timer
  /\ proxy.elapsed >= FetchTimeout
  /\ proxy' = Answer([proxy EXCEPT !.timer = FALSE],
                     ProxyFailure(504, "Request timed out"))
  /\ UNCHANGED <<page, hook, env, fnVars, smart, cache, storage, handlerVars, gen,
                 genServed, rateVars>>

\* The fetch settles before the timer's moment: it throws, or the response
\* headers are in and clearTimeout follows the await at once.  A timer left
\* armed by a throw aborts a fetch that has settled, to no effect.
FetchReturns(outcome, contentLength) ==
  /\ proxy.pc = "fetch"
  /\ proxy.timer => proxy.elapsed < FetchTimeout
  /\ LET disarmed == [proxy EXCEPT !.timer = FALSE]
     IN  proxy' =
           CASE outcome = "throw" ->
                  Answer(disarmed, ProxyFailure(500, "Failed to proxy image"))
             [] outcome = "notOk" ->
                  Answer(disarmed, ProxyFailure(404, "Failed to fetch image"))
             [] OTHER ->
                  IF /\ proxy.validating
                     /\ contentLength # << >>
                     /\ contentLength[1] > MAX_IMAGE_SIZE
                  THEN Answer([disarmed EXCEPT !.contentLength = contentLength],
                              ProxyFailure(413, "Image too large (max 10MB)"))
                  ELSE [disarmed EXCEPT !.pc = "body", !.contentLength = contentLength]
  /\ UNCHANGED <<page, hook, env, fnVars, smart, cache, storage, handlerVars, gen,
                 genServed, rateVars>>

\* response.arrayBuffer() settles: it throws, or imageData is there; the
\* conversion to base64 may throw on its argument list.
BodyReturns(outcome, byteLength) ==
  /\ proxy.pc = "body"
  /\ LET read == [proxy EXCEPT !.byteLength = byteLength]
     IN  proxy' =
           CASE outcome = "throw" ->
                  Answer(proxy, ProxyFailure(500, "Failed to proxy image"))
             [] proxy.validating /\ byteLength > MAX_IMAGE_SIZE ->
                  Answer(read, ProxyFailure(413, "Image too large (max 10MB)"))
             [] outcome = "encodeThrows" ->
                  Answer(read, ProxyFailure(500, "Failed to proxy image"))
             [] OTHER -> Answer(read, ProxySuccess)
  /\ UNCHANGED <<page, hook, env, fnVars, smart, cache, storage, handlerVars, gen,
                 genServed, rateVars>>

\* No page has been handed to the extractors.
NoPage == [html |-> << >>, imageUrl |-> << >>, validImageUrl |-> << >>]

Init ==
  /\ InitSystem
  /\ page = NoPage
  /\ proxy = NoProxy(TRUE)
  /\ arg = 0
  /\ verdict = << >>
  /\ slug = << >>
  /\ prompt = << >>

Next ==
  \/ \E lo \in Numbers, hi \in Numbers, single \in {Undefined, "true", "false"},
        bodyOk \in BOOLEAN :
       ReceiveRequest(lo, hi, single, env.FIRECRAWL_API_KEY, bodyOk)
  \/ \E readOk \in BOOLEAN : CacheLookupReturns(readOk)
  \/ \E n \in Numbers, outcome \in {"ok", "throw", "notOk", "noImage"} : ScrapeReturns(n, outcome)
  \/ \E n \in Numbers, outcome \in {"ok", "throw", "notOk"}, contentType \in ContentTypes :
       DownloadReturns(n, outcome, contentType)
  \/ \E n \in Numbers, outcome \in {"ok", "error"} : UploadReturns(n, outcome)
  \/ \E n \in Numbers, outcome \in {"ok", "error"} : UpsertReturns(n, outcome)
  \/ BatchCompletes
  \/ PauseElapses
  \/ AutoGenerateReturns
  \/ \E isNumber \in BOOLEAN, number \in GenNumbers :
       GenReceive(isNumber, number, env.OPENAI_API_KEY)
  \/ \E p \in GenProcs, outcome \in {"ok", "throw", "429", "notOk", "noImage"} :
       GenAIReturns(p, outcome)
  \/ \E p \in GenProcs, outcome \in {"ok", "error"} : GenUploadReturns(p, outcome)
  \/ \E p \in GenProcs, outcome \in {"ok", "error"} : GenUpsertReturns(p, outcome)

Spec == Init /\ [][Next]_vars

(***************************************************************************)
(* The admission controller of the rate-limiting plan: checkRateLimits and *)
(* logApiCalls over table rate_limit_log.                                  *)
(***************************************************************************)
ClientIPs == {"203.0.113.7", "198.51.100.9"}
CallCounts == {25, 101}
OneMinute == 60 * 1000

\* ipCalls?.reduce((sum, r) => sum + r.api_calls_count, 0) || 0, null when the read failed
RECURSIVE reduceSum(_)
reduceSum(rows) ==
  IF rows = << >> THEN 0 ELSE rows[1].api_calls_count + reduceSum(Tail(rows))

SumOrZero(readOk, rows) == IF readOk THEN reduceSum(rows) ELSE 0

\* .eq('ip_address', ip).gte('created_at', since)
SelectByIpSince(log, ip, since) ==
  SelectSeq(log, LAMBDA r : r.ip_address = ip /\ r.created_at >= since)

\* .gte('created_at', since)
SelectSince(log, since) == SelectSeq(log, LAMBDA r : r.created_at >= since)

\* a delay that is not capped
checkRateLimitsUncapped(log, clock, ip, ipReadOk, globalReadOk) ==
  LET fiveMinAgo == clock - 5 * 60 * 1000
      ipTotal == SumOrZero(ipReadOk, SelectByIpSince(log, ip, fiveMinAgo))
      oneMinAgo == clock - 60 * 1000
      globalTotal == SumOrZero(globalReadOk, SelectSince(log, oneMinAgo))
      delay1 == IF ipTotal > 20 THEN (ipTotal - 20) * 10000 ELSE 0
      delay2 == IF globalTotal > 100 THEN delay1 + (globalTotal - 100) * 5000 ELSE delay1
  IN delay2

\* checkRateLimits(supabase, ip): the delay in milliseconds
checkRateLimits(log, clock, ip, ipReadOk, globalReadOk) ==
  LET fiveMinAgo == clock - 5 * 60 * 1000
      ipTotal == SumOrZero(ipReadOk, SelectByIpSince(log, ip, fiveMinAgo))
      oneMinAgo == clock - 60 * 1000
      globalTotal == SumOrZero(globalReadOk, SelectSince(log, oneMinAgo))
      delay1 == IF ipTotal > 20 THEN (ipTotal - 20) * 10000 ELSE 0
      delay2 == IF globalTotal > 100 THEN delay1 + (globalTotal - 100) * 5000 ELSE delay1
  IN Min(delay2, 60000)

\* A caller asks for the delay of client ip; rateCheck is the answer it holds for the
\* present log and instant.
CheckRateLimits(ip, ipReadOk, globalReadOk) ==
  /\ rateCheck' = [ip |-> ip, ipRead |-> ipReadOk, globalRead |-> globalReadOk,
                   delay |-> checkRateLimits(rateLimitLog, now, ip, ipReadOk, globalReadOk)]
  /\ UNCHANGED <<proxy, page, hook, env, fnVars, smart, cache, storage, handlerVars, gen, genServed, rateLimitLog, now>>

\* logApiCalls(supabase, ip, count): one row is inserted, created_at defaults to now().
LogApiCalls(ip, count) ==
  /\ Len(rateLimitLog) < MaxLogRows
  /\ rateLimitLog' = Append(rateLimitLog,
       [ip_address |-> ip, endpoint |-> "scrape-numberblocks",
        api_calls_count |-> count, created_at |-> now])
  /\ rateCheck' = NoRateCheck
  /\ UNCHANGED <<proxy, page, hook, env, fnVars, smart, cache, storage, handlerVars, gen, genServed, now>>

\* A minute passes.
Tick ==
  /\ now + OneMinute <= MaxMinutes * OneMinute
  /\ now' = now + OneMinute
  /\ rateCheck' = NoRateCheck
  /\ UNCHANGED <<proxy, page, hook, env, fnVars, smart, cache, storage, handlerVars, gen, genServed, rateLimitLog>>

InitRate == Init /\ ~smart /\ env = Configured

NextRate ==
  \/ \E ip \in ClientIPs, ipReadOk \in BOOLEAN, globalReadOk \in BOOLEAN :
       CheckRateLimits(ip, ipReadOk, globalReadOk)
  \/ \E ip \in ClientIPs, count \in CallCounts : LogApiCalls(ip, count)
  \/ Tick

SpecRate == InitRate /\ [][NextRate]_vars

(***************************************************************************)
(* numberToWord.  A string is modelled as the sequence of its pieces       *)
(* (words, separators, digit strings): + of the source is \o, '' is << >>, *)
(* and Join gives the string itself.                                       *)
(***************************************************************************)
OnesWords ==
  << "One", "Two", "Three", "Four", "Five", "Six", "Seven", "Eight", "Nine", "Ten",
     "Eleven", "Twelve", "Thirteen", "Fourteen", "Fifteen", "Sixteen", "Seventeen",
     "Eighteen", "Nineteen" >>

LowerCaseWords ==
  << "one", "two", "three", "four", "five", "six", "seven", "eight", "nine", "ten",
     "eleven", "twelve", "thirteen", "fourteen", "fifteen", "sixteen", "seventeen",
     "eighteen", "nineteen" >>

TensWords ==
  << "Twenty", "Thirty", "Forty", "Fifty", "Sixty", "Seventy", "Eighty", "Ninety" >>

ones == [k \in 0..19 |-> IF k = 0 THEN << >> ELSE <<OnesWords[k]>>]

tensWithoutTwenty == [k \in 0..9 |-> IF k < 3 THEN << >> ELSE <<TensWords[k - 1]>>]

tens == [k \in 0..9 |-> IF k < 2 THEN << >> ELSE <<TensWords[k - 1]>>]

toLowerCaseOmitted(s) == s

\* String.prototype.toLowerCase, on the words it is applied to.
toLowerCase(s) ==
  [k \in DOMAIN s |->
     IF \E w \in DOMAIN OnesWords : OnesWords[w] = s[k]
     THEN LowerCaseWords[CHOOSE w \in DOMAIN OnesWords : OnesWords[w] = s[k]]
     ELSE s[k]]

\* String.prototype.replace with a string pattern: the first occurrence only.
replace(s, pattern, replacement) ==
  IF \E k \in DOMAIN s : s[k] = pattern
  THEN LET first == CHOOSE k \in DOMAIN s :
                      s[k] = pattern /\ \A j \in 1..(k - 1) : s[j] # pattern
       IN  [s EXCEPT ![first] = replacement]
  ELSE s

RECURSIVE Join(_)
Join(s) == IF s = << >> THEN "" ELSE Head(s) \o Join(Tail(s))

\* numberToWord of the range-resolve handler: the page slug of a number.
RECURSIVE numberToWord(_)
numberToWord(num) ==
  IF num = 0 THEN <<"Zero">>
  ELSE IF num < 20 THEN ones[num]
  ELSE IF num < 100
  THEN LET ten == num \div 10
           one == num % 10
       IN  tens[ten] \o (IF one > 0 THEN <<"-">> \o toLowerCase(ones[one]) ELSE << >>)
  ELSE IF num = 100 THEN <<"One", "_", "Hundred">>
  ELSE IF num > 100 /\ num < 1000
  THEN LET hundred   == num \div 100
           remainder == num % 100
       IN  IF remainder = 0
           THEN ones[hundred] \o <<"_", "Hundred">>
           ELSE ones[hundred] \o <<"_", "Hundred", "_">>
                  \o replace(numberToWord(remainder), "-", "_")
  ELSE IF num = 1000 THEN <<"One", "_", "Thousand">>
  ELSE <<toString(num)>>

\* numberToWord of the generate endpoint: the name written into the prompt.
\* Its last line, num.toLocaleString(), follows a branch that takes every
\* remaining number.
RECURSIVE numberToWordForPrompt(_)
numberToWordForPrompt(num) ==
  IF num = 0 THEN <<"Zero">>
  ELSE IF num < 20 THEN ones[num]
  ELSE IF num < 100
  THEN LET ten == num \div 10
           one == num % 10
       IN  tens[ten] \o (IF one > 0 THEN <<"-">> \o toLowerCase(ones[one]) ELSE << >>)
  ELSE IF num = 100 THEN <<"One", " ", "Hundred">>
  ELSE IF num > 100 /\ num < 1000
  THEN LET hundred   == num \div 100
           remainder == num % 100
       IN  IF remainder = 0
           THEN ones[hundred] \o <<" ", "Hundred">>
           ELSE ones[hundred] \o <<" ", "Hundred", " ">>
                  \o numberToWordForPrompt(remainder)
  ELSE IF num = 1000 THEN <<"One", " ", "Thousand">>
  ELSE IF num >= 1000 /\ num < 1000000
  THEN LET thousands == num \div 1000
           remainder == num % 1000
       IN  IF remainder = 0
           THEN numberToWordForPrompt(thousands) \o <<" ", "Thousand">>
           ELSE numberToWordForPrompt(thousands) \o <<" ", "Thousand", " ">>
                  \o numberToWordForPrompt(remainder)
  ELSE LET millions  == num \div 1000000
           remainder == num % 1000000
       IN  IF remainder = 0
           THEN numberToWordForPrompt(millions) \o <<" ", "Million">>
           ELSE numberToWordForPrompt(millions) \o <<" ", "Million", " ">>
                  \o numberToWordForPrompt(remainder)

(***************************************************************************)
(* extractInfoboxImage.  A URL is the sequence of its pieces, "/" being a  *)
(* piece of its own; a page is the sequence of its elements that the       *)
(* patterns look at: the blocks that open an infobox and the img tags.     *)
(* null is the empty sequence: a captured src is never empty.              *)
(***************************************************************************)
NoUrl == << >>

\* String.prototype.includes: t occurs in s.
includes(s, t) ==
  \E k \in 1..(Len(s) - Len(t) + 1) : SubSeq(s, k, k + Len(t) - 1) = t

\* The pieces written with capitals, and their lower-case forms.
CapitalPieces == <<"Icon", "Site">>
SmallPieces == <<"icon", "site">>

\* toLowerCase of a URL, and the i flag of a pattern.
lowerCase(s) ==
  toLowerCase(
    [k \in DOMAIN s |->
       IF \E c \in DOMAIN CapitalPieces : CapitalPieces[c] = s[k]
       THEN SmallPieces[CHOOSE c \in DOMAIN CapitalPieces : CapitalPieces[c] = s[k]]
       ELSE s[k]])

DigitPieces == {"7", "350", "2000"}

Scheme == <<"https:", "/", "/">>
ContentImages == <<"static.wikia.nocookie.net", "/", "numberblocks", "/", "images">>
ScaleDown == <<"/", "revision", "/", "latest", "/", "scale-to-width-down", "/", "350">>

\* The src attributes a page may hold.
SevenScaled   == Scheme \o ContentImages \o <<"/", "Seven", ".png">> \o ScaleDown
FaviconSeven  == Scheme \o ContentImages \o <<"/", "fav", "icon", "-", "7", ".png">>
SiteLogo      == Scheme \o ContentImages \o <<"/", "Site", "-", "logo", ".png">>
IconSeven     == Scheme \o ContentImages \o <<"/", "Icon", "-", "7", ".png">>
OffSiteSeven  == Scheme \o <<"example.com", "/", "Seven", ".png">>
MirrorSeven   == Scheme \o <<"example.com", "/">> \o ContentImages \o <<"/", "7", ".png">>
TwoThousand   == Scheme \o ContentImages \o <<"/", "2000", ".png">>

Sources ==
  {SevenScaled, FaviconSeven, SiteLogo, IconSeven, OffSiteSeven, MirrorSeven, TwoThousand}

Img(src) == [tag |-> "img", class |-> "", src |-> src]
Block(tag, class) == [tag |-> tag, class |-> class, src |-> NoUrl]

Elements ==
  {Img(src) : src \in Sources}
    \cup {Block("figure", "pi-image"), Block("a", "image image-thumbnail"),
          Block("aside", "portable-infobox")}

MaxElements == 3

RECURSIVE PagesOfLength(_)
PagesOfLength(n) ==
  IF n = 0 THEN {<< >>}
  ELSE {Append(p, e) : p \in PagesOfLength(n - 1), e \in Elements}

Pages == UNION {PagesOfLength(n) : n \in 0..MaxElements}

TargetNumbers == {7, 2000}

\* src of the img tags of the page, in document order: html.matchAll(/<img ... src="([^"]+)"/gi)
allImgMatches(html) ==
  LET imgs == SelectSeq(html, LAMBDA e : e.tag = "img")
  IN  [k \in DOMAIN imgs |-> imgs[k].src]

FirstOf(list) == IF list = << >> THEN NoUrl ELSE list[1]

\* html.match of a pattern  <block>[^>]*>.*?<img[^>]*src="([^"]+)" : the first img
\* tag after the first of the blocks, the positions of the elements of the kind.
MatchInBlock(html, blocks) ==
  IF blocks = {} THEN NoUrl
  ELSE LET first == CHOOSE k \in blocks : \A j \in blocks : k <= j
       IN  FirstOf(allImgMatches(SubSeq(html, first + 1, Len(html))))

\* imageUrl.replace(pattern, '/revision/latest') for a pattern that begins with
\* /revision/latest: the first run of the pattern loses what follows the prefix.
ReplaceRun(s, runs) ==
  LET At(k, r) == k + Len(r) - 1 <= Len(s) /\ SubSeq(s, k, k + Len(r) - 1) = r
      hits == {k \in DOMAIN s : \E r \in runs : At(k, r)}
  IN  IF hits = {} THEN s
      ELSE LET k == CHOOSE h \in hits : \A j \in hits : h <= j
               r == CHOOSE t \in runs : At(k, t)
           IN  SubSeq(s, 1, k - 1) \o <<"/", "revision", "/", "latest">>
                 \o SubSeq(s, k + Len(r), Len(s))

ScaleRuns ==
  {<<"/", "revision", "/", "latest", "/", "scale-to-width-down", "/", d>> :
     d \in DigitPieces}

SmartRuns ==
  {<<"/", "revision", "/", "latest", "/", "smart", "/", "width", "/", w, "/", "height",
     "/", h>> : w \in DigitPieces, h \in DigitPieces}

FullSize(imageUrl) == ReplaceRun(ReplaceRun(imageUrl, ScaleRuns), SmartRuns)

\* The four patterns of the range-resolve handler, each matched once.
PatternMatch(html, num, p) ==
  CASE p = 1 -> MatchInBlock(html, {k \in DOMAIN html : html[k].class = "pi-image"})
    [] p = 2 -> MatchInBlock(html, {k \in DOMAIN html : html[k].class = "image image-thumbnail"})
    [] p = 3 -> FirstOf(SelectSeq(allImgMatches(html),
                  LAMBDA src : /\ src[Len(src)] = ".png"
                               /\ includes(lowerCase(SubSeq(src, 2, Len(src) - 1)),
                                           lowerCase(numberToWord(num)))))
    [] p = 4 -> FirstOf(SelectSeq(allImgMatches(html),
                  LAMBDA src : /\ Len(src) > 6
                               /\ SubSeq(src, 1, 6) =
                                    Scheme \o <<"static.wikia.nocookie.net", "/",
                                                "numberblocks">>))

Excluded(imageUrl) ==
  \/ includes(imageUrl, <<"placeholder">>)
  \/ includes(imageUrl, <<"icon">>)
  \/ includes(imageUrl, <<"fav", "icon">>)

RECURSIVE PatternLoop(_, _, _)
PatternLoop(html, num, p) ==
  IF p > 4 THEN NoUrl
  ELSE LET match == PatternMatch(html, num, p)
       IN  IF match # NoUrl /\ ~Excluded(FullSize(match))
           THEN FullSize(match)
           ELSE PatternLoop(html, num, p + 1)

\* extractInfoboxImage of the range-resolve handler.
extractInfoboxImage(html, num) == PatternLoop(html, num, 1)

\* invalidPatterns of isValidCharacterImage, all with the i flag; the two with
\* .* are the pairs.
invalidPatterns ==
  { <<"placeholder">>, <<"icon">>, <<"fav", "icon">>, <<"logo">>, <<"banner">>,
    <<"site", "-", "logo">>, <<"wiki", "-", "wordmark">>, <<"community", "-", "header">>,
    <<"avatar">>, <<"badge">>, <<"button">>, <<"sprite">>, <<"blocks", "_", "universe">>,
    <<"community">> }

invalidPairs == { <<"blocks", "universe">>, <<"wiki", "wordmark">> }

isValidCharacterImage(imageUrl) ==
  LET url == lowerCase(imageUrl)
  IN  /\ \A pattern \in invalidPatterns : ~includes(url, pattern)
      /\ \A pair \in invalidPairs :
           ~\E j \in DOMAIN url, k \in DOMAIN url :
              j < k /\ url[j] = pair[1] /\ url[k] = pair[2]
      /\ includes(imageUrl, ContentImages)

\* imageUrl.split('/').pop().split('?')[0]
FileName(imageUrl) ==
  LET slashes == {k \in DOMAIN imageUrl : imageUrl[k] = "/"}
      start   == IF slashes = {} THEN 1
                 ELSE 1 + CHOOSE k \in slashes : \A j \in slashes : j <= k
      last    == SubSeq(imageUrl, start, Len(imageUrl))
      marks   == {k \in DOMAIN last : last[k] = "?"}
  IN  IF marks = {} THEN last
      ELSE SubSeq(last, 1, (CHOOSE k \in marks : \A j \in marks : k <= j) - 1)

\* numberToWord(num).toLowerCase().replace(/[_-]/g, '')
numberName(num) ==
  SelectSeq(lowerCase(numberToWord(num)), LAMBDA piece : piece \notin {"_", "-"})

\* extractInfoboxImage of the validating revision (functions/proxy-image/index.ts).
extractValidInfoboxImage(html, num) ==
  LET numStr     == <<toString(num)>>
      valid      == SelectSeq(allImgMatches(html), isValidCharacterImage)
      byNumber   == SelectSeq(valid,
                      LAMBDA src : includes(lowerCase(FileName(src)), numStr))
      inPiImage  == FullSize(MatchInBlock(html,
                      {k \in DOMAIN html : html[k].class = "pi-image"}))
      inInfobox  == FullSize(MatchInBlock(html,
                      {k \in DOMAIN html : html[k].tag = "aside" /\ html[k].class = "portable-infobox"}))
      byName     == SelectSeq(valid,
                      LAMBDA src : includes(lowerCase(src), numberName(num)))
  IN  IF byNumber # << >> THEN FullSize(byNumber[1])
      ELSE IF num <= 1000
      THEN IF inPiImage # NoUrl /\ isValidCharacterImage(inPiImage) THEN inPiImage
           ELSE IF inInfobox # NoUrl /\ isValidCharacterImage(inInfobox) THEN inInfobox
           ELSE IF byName # << >> THEN FullSize(byName[1])
           ELSE NoUrl
      ELSE NoUrl

\* extractInfoboxImage(page.html, arg) is called.
CallExtractInfoboxImage ==
  /\ page.imageUrl = << >>
  /\ page' = [page EXCEPT !.imageUrl = <<extractInfoboxImage(page.html, arg)>>]
  /\ UNCHANGED <<proxy, hook, env, fnVars, smart, cache, storage, handlerVars, gen, genServed,
                 rateVars>>

CallExtractValidInfoboxImage ==
  /\ page.validImageUrl = << >>
  /\ page' = [page EXCEPT
                !.validImageUrl = <<extractValidInfoboxImage(page.html, arg)>>]
  /\ UNCHANGED <<proxy, hook, env, fnVars, smart, cache, storage, handlerVars, gen, genServed,
                 rateVars>>

(***************************************************************************)
(* The helper functions called on their own.                               *)
(***************************************************************************)
MaxArgument == 1100
LargeArguments == {1500, 2000, 2048, 3000, 4096, 9000, 10000, 10001, 12345, 19000, 20000,
                   21000, 99999, 100000, 100100, 300000, 999000, 999999, 1000000,
                   1000001, 2000000, 3000000, 10000000, 100000000, 1000000000,
                   1000000001, 2000000000}
Arguments == (0..MaxArgument) \cup LargeArguments

\* shouldScrape(arg) is called.
CallShouldScrape ==
  /\ verdict = << >>
  /\ verdict' = <<shouldScrape(arg)>>
  /\ UNCHANGED <<proxy, page, hook, env, arg, slug, prompt, smart, cache, storage, handlerVars, gen,
                 genServed, rateVars>>

\* numberToWord(arg) of the range-resolve handler is called.
CallNumberToWord ==
  /\ slug = << >>
  /\ slug' = <<numberToWord(arg)>>
  /\ UNCHANGED <<proxy, page, hook, env, arg, verdict, prompt, smart, cache, storage, handlerVars, gen,
                 genServed, rateVars>>

\* numberToWord(arg) of the generate endpoint is called.
CallNumberToWordForPrompt ==
  /\ prompt = << >>
  /\ prompt' = <<numberToWordForPrompt(arg)>>
  /\ UNCHANGED <<proxy, page, hook, env, arg, verdict, slug, smart, cache, storage, handlerVars, gen,
                 genServed, rateVars>>

InitFunctions ==
  /\ InitSystem
  /\ page = NoPage
  /\ proxy = NoProxy(TRUE)
  /\ ~smart
  /\ env = Configured
  /\ arg \in Arguments
  /\ verdict = << >>
  /\ slug = << >>
  /\ prompt = << >>

NextFunctions ==
  \/ CallShouldScrape
  \/ CallNumberToWord
  \/ CallNumberToWordForPrompt

SpecFunctions == InitFunctions /\ [][NextFunctions]_vars

(***************************************************************************)
(* Properties of the range-resolve pipeline.                               *)
(***************************************************************************)
Requested == req.startNumber..req.endNumber
Succeeded == response.sent /\ response.success
DataOf(n) == {k \in 1..Len(response.data) : response.data[k].number = n}
InFlight == {n \in Numbers : task[n].stage = "scrape"}
Started == {n \in Numbers : task[n].stage # "none"}
AllCached == req # NoRequest /\ \A n \in Requested : cachedMap[n] # Null

\* C1: a successful range-resolve response holds exactly one result for each number of
\* [startNumber, endNumber]: none is missing, none is duplicated, none lies outside.
C1_OneResultPerNumber ==
  Succeeded =>
    /\ Len(response.data) = req.endNumber - req.startNumber + 1
    /\ \A n \in Requested : Cardinality(DataOf(n)) = 1
    /\ \A k \in 1..Len(response.data) : response.data[k].number \in Requested

\* a successful response that mixes a cache hit, a skipped number and a scraped number
C1_Witness ==
  /\ Succeeded
  /\ \E a \in Requested, b \in Requested, c \in Requested :
       /\ cachedMap[a] # Null
       /\ task[b].stage = "done"
       /\ \E k \in DataOf(c) : response.data[k].skipScrape

\* C2: the data of a successful response is sorted strictly ascending by number.
C2_SortedAscending ==
  Succeeded =>
    \A k \in 1..(Len(response.data) - 1) :
      response.data[k].number < response.data[k + 1].number

\* a successful response whose cache hit was gathered before a smaller scraped number
C2_Witness ==
  /\ Succeeded
  /\ \E a \in Requested, b \in Requested :
       a < b /\ task[a].stage = "done" /\ cachedMap[b] # Null

\* C3: when the cache lookup returned an entry for every number of the range, no
\* remote scrape call is issued, no batch is dispatched, the admission controller is
\* not consulted, and every result is served from the cache.
C3_FullyCachedIsFree ==
  AllCached =>
    /\ numbersToScrape = << >>
    /\ Started = {}
    /\ batches = 0
    /\ rateCheck = NoRateCheck
    /\ Succeeded
    /\ \A k \in 1..Len(response.data) :
         /\ response.data[k].cached
         /\ response.data[k].imageUrl = getPublicUrl(cachedMap[response.data[k].number])

\* a request over two numbers that were both in the cache index
C3_Witness ==
  /\ AllCached
  /\ Succeeded
  /\ req.startNumber < req.endNumber

\* the number of batches a to-scrape set of m numbers takes
CeilDiv(m, d) == (m + d - 1) \div d
BatchIndex(k) == (k - 1) \div batchSize

\* C4: never more than 5 remote scrape calls are in flight; a call of a later batch is
\* issued only after every call of the earlier batches has returned; every batch holds
\* at most 5 calls; and a request that is answered has dispatched exactly ceil(m/5)
\* batches for its m numbers to scrape.
C4_BatchesOfFive ==
  /\ Cardinality(InFlight) <= 5
  /\ \A k1 \in 1..Len(numbersToScrape), k2 \in 1..Len(numbersToScrape) :
       (BatchIndex(k1) < BatchIndex(k2) /\ task[numbersToScrape[k2]].stage # "none")
         => task[numbersToScrape[k1]].stage = "done"
  /\ Started \subseteq {numbersToScrape[k] : k \in 1..Min(batches * 5, Len(numbersToScrape))}
  /\ Succeeded => batches = CeilDiv(Len(numbersToScrape), 5)

\* an answered request that needed a second batch
C4_Witness ==
  /\ Succeeded
  /\ Len(numbersToScrape) > 5
  /\ batches = 2

\* C5: every cache-index entry names an object that is in the bucket.
C5_EntriesReferToStoredObjects ==
  \A n \in Numbers : cache[n] # NoEntry => cache[n].storage_path \in storage

\* a scrape has written the entry of a number while a generation of the same number
\* has uploaded its object and not yet written its entry
C5_Witness ==
  \E n \in Numbers :
    /\ cache[n] # NoEntry
    /\ cache[n].original_url # "ai-generated"
    /\ gen["endpoint"].pc = "upsert"
    /\ gen["endpoint"].number = n

\* the request has been answered after its body was read
Answered == hpc = "idle" /\ req # NoRequest /\ response.sent
Scraped == {n \in Requested : task[n].stage = "done"}
HardFaults == {"scrape threw", "scrape not ok", "no image extracted", "download threw"}
SoftFaults == {"download not ok", "upload failed"}

\* C6: a failure while resolving one number never aborts the request: the request is
\* answered with success, and every number whose own resolution met no failure gets
\* the stored-image result of its own call (cache hits get their cached result),
\* whatever happened to the numbers resolved next to it.
C6_FailuresAreIsolated ==
  Answered =>
    /\ response.success
    /\ \A n \in Scraped :
         task[n].fault = "none" =>
           \E k \in DataOf(n) :
             response.data[k] = StoredResult(n, ScrapeStoragePath(n, task[n].contentType))
    /\ \A n \in Requested :
         cachedMap[n] # Null =>
           \E k \in DataOf(n) : response.data[k] = CacheHitResult(n, cachedMap[n])

\* an answered request in which one number failed with an error and the number next
\* to it was scraped and stored
C6_Witness ==
  /\ Answered
  /\ \E a \in Scraped, b \in Scraped :
       /\ task[a].fault \in HardFaults
       /\ task[b].fault = "none"
       /\ \E k \in DataOf(b) : response.data[k].cached

C8_ReasonIffNoImage ==
  Succeeded =>
    \A k \in 1..Len(response.data) :
      (response.data[k].error # Undefined) <=> (response.data[k].imageUrl = Null)

\* a response that holds a skipped number next to a number with an image
C8_Witness ==
  /\ Succeeded
  /\ \E j \in 1..Len(response.data), k \in 1..Len(response.data) :
       /\ response.data[j].skipScrape
       /\ response.data[k].imageUrl # Null

(***************************************************************************)
(* Properties of the admission controller.                                 *)
(***************************************************************************)
Max(a, b) == IF a >= b THEN a ELSE b

RECURSIVE SumCounts(_)
SumCounts(rows) ==
  IF rows = {} THEN 0
  ELSE LET k == CHOOSE j \in rows : TRUE
       IN rateLimitLog[k].api_calls_count + SumCounts(rows \ {k})

\* calls logged for client ip during the last five minutes
IpTotal(ip) ==
  SumCounts({k \in 1..Len(rateLimitLog) :
               /\ rateLimitLog[k].ip_address = ip
               /\ now - rateLimitLog[k].created_at <= 300000})

\* calls logged for all clients during the last minute
GlobalTotal ==
  SumCounts({k \in 1..Len(rateLimitLog) : now - rateLimitLog[k].created_at <= 60000})

ExpectedDelay(ip) ==
  Min(60000, Max(0, IpTotal(ip) - 20) * 10000 + Max(0, GlobalTotal - 100) * 5000)

\* C9: when both reads of the log succeed, the delay returned for a client is
\* min(60000, max(0, ipTotal - 20) * 10000 + max(0, globalTotal - 100) * 5000), where
\* ipTotal sums the calls of that client logged in the last 5 minutes and globalTotal
\* the calls of all clients logged in the last minute.
C9_DelayFormula ==
  (rateCheck # NoRateCheck /\ rateCheck.ipRead /\ rateCheck.globalRead) =>
    rateCheck.delay = ExpectedDelay(rateCheck.ip)

\* a client with ipTotal = 25 while globalTotal = 50 is told to wait 50000 ms
C9_Witness ==
  /\ rateCheck # NoRateCheck /\ rateCheck.ipRead /\ rateCheck.globalRead
  /\ IpTotal(rateCheck.ip) = 25
  /\ GlobalTotal = 50
  /\ rateCheck.delay = 50000

\* C10: a remote scrape call is in flight only while the handler holds the delay that
\* the admission controller returned for the request.
C10_AdmissionBeforeScrape ==
  InFlight # {} => rateCheck # NoRateCheck

(***************************************************************************)
(* Properties of rate-limit logging.                                       *)
(***************************************************************************)
\* the calls of the request that the remote scrape service answered successfully
SuccessfulScrapes == {n \in Scraped : task[n].fault \notin {"scrape threw", "scrape not ok"}}

\* C11: once a request that made k >= 1 successful remote scrape calls is answered,
\* the rate-limit log holds a row with callCount = k.
C11_CallsAreLogged ==
  (Answered /\ SuccessfulScrapes # {}) =>
    \E j \in 1..Len(rateLimitLog) :
      rateLimitLog[j].api_calls_count = Cardinality(SuccessfulScrapes)

(***************************************************************************)
(* Properties of the scrape-worthiness classifier.                         *)
(***************************************************************************)
RECURSIVE Pow(_, _)
Pow(b, e) == IF e = 0 THEN 1 ELSE b * Pow(b, e - 1)

IsSquareNumber(n) == \E k \in 1..32 : k * k = n
IsPowerOfTwo(n) == \E e \in 0..10 : n = Pow(2, e)
HasIdenticalDigits(n) == \E d \in 1..9 : n = d * 111
IsPowerOfTen(n) == \E e \in 1..9 : n = Pow(10, e)

\* what the classifier is to answer for n
WorthRemoteLookup(n) ==
  IF n <= 100 THEN TRUE
  ELSE IF n <= 1000
  THEN \/ n % 10 = 0
       \/ n % 25 = 0
       \/ n % 50 = 0
       \/ IsSquareNumber(n)
       \/ IsPowerOfTwo(n)
       \/ HasIdenticalDigits(n)
  ELSE IsPowerOfTen(n) \/ n \in {1000, 10000, 100000, 1000000, 10000000, 100000000, 1000000000}

\* C12: shouldScrape(n) is true for every n <= 100; for 101 <= n <= 1000 it is true
\* exactly for the multiples of 10, 25 or 50, the perfect squares, the powers of 2 and
\* the numbers of identical digits; above 1000 exactly for the powers of 10 and the
\* named magnitudes.
C12_ClassifierRule ==
  verdict # << >> => verdict[1] = WorthRemoteLookup(arg)

\* 256, a power of 2 and a perfect square above 100, has been classified as worth a lookup
C12_Witness ==
  arg = 256 /\ verdict = <<TRUE>>

(***************************************************************************)
(* Properties of smart scraping and auto-generation.                       *)
(***************************************************************************)
\* C13: a remote scrape call is issued only for a number the classifier accepts, and a
\* requested number that has no cache entry and that the classifier rejects is
\* answered with no imageUrl and the reason "Not expected to have wiki image".
C13_UnworthyNumbersAreSkipped ==
  /\ \A n \in Started : shouldScrape(n)
  /\ Succeeded =>
       \A n \in Requested :
         (cachedMap[n] = Null /\ ~shouldScrape(n)) =>
           \E k \in DataOf(n) :
             /\ response.data[k].imageUrl = Null
             /\ response.data[k].error = "Not expected to have wiki image"

\* C14: a request for exactly one number whose result has no imageUrl after the cache
\* and scrape steps calls generateWithAI exactly once; a request over more numbers, or
\* one whose single number was served with an image, never calls it.
C14_GenerationOnlyForImagelessSingle ==
  (Answered /\ response.success) =>
    generations =
      IF /\ req.startNumber = req.endNumber
         /\ (response.data[1].imageUrl = Null \/ response.data[1].aiGenerated)
      THEN 1 ELSE 0

\* C15: when generateWithAI returns a failure to the auto-generate block, the single
\* result is answered with the failure's error as its reason, so that a rate-limit
\* answer of the generation service can be told from any other failure.
C15_GenerationFailureIsTheReason ==
  [][(hpc = "autogen" /\ hpc' = "idle" /\ ~gen["inline"].response.success)
       => response'.data[1].error = gen["inline"].response.error]_vars

(***************************************************************************)
(* Properties of error handling.                                           *)
(***************************************************************************)
\* rows a rate-limit log may hold, and logs of up to MaxLogRows of them
SampleRows ==
  [ip_address : ClientIPs, endpoint : {"scrape-numberblocks"},
   api_calls_count : CallCounts, created_at : {m * OneMinute : m \in 0..MaxMinutes}]
SampleLogs == UNION {[1..k -> SampleRows] : k \in 0..MaxLogRows}

\* a failed read of the rate-limit log counts as no usage: with both reads failed the
\* delay is 0, with the read of the client's rows failed the delay is the one of a log
\* without rows of the client
FailedLogReadIsZeroUsage ==
  \A log \in SampleLogs, ip \in ClientIPs :
    LET clock == MaxMinutes * OneMinute
    IN /\ checkRateLimits(log, clock, ip, FALSE, FALSE) = 0
       /\ checkRateLimits(log, clock, ip, FALSE, TRUE)
            = Min(60000, Max(0, reduceSum(SelectSince(log, clock - OneMinute)) - 100) * 5000)

\* the cache query of the request has returned without the entry of a number that
\* an earlier request had scraped and stored
LookupMissedAnEntry(n) ==
  /\ n \in Requested
  /\ cachedMap[n] = Null
  /\ cache[n] # NoEntry
  /\ cache[n].original_url # "ai-generated"

\* C16: a cache query that fails leaves every requested number a cache miss: each is
\* queued for the remote scrape (or skipped by the classifier), none is answered from
\* the cache, and the request is still answered with success and one result per
\* number; a failed read of the rate-limit log counts as zero usage.
C16_FailedReadsDegrade ==
  /\ FailedLogReadIsZeroUsage
  /\ (hpc \in {"batch", "pause", "autogen"} \/ Answered) =>
       \A n \in Requested :
         cachedMap[n] = Null =>
           \/ n \in SeqToSet(numbersToScrape)
           \/ \E k \in 1..Len(results) : results[k].number = n /\ results[k].skipScrape
  /\ Answered =>
       /\ response.success
       /\ \A n \in Requested : Cardinality(DataOf(n)) = 1

\* the request is answered with success although its cache query failed: the number
\* it found no entry for was scraped again
C16_Witness ==
  /\ Answered
  /\ response.success
  /\ \E n \in Numbers :
       /\ LookupMissedAnEntry(n)
       /\ task[n].stage = "done"
       /\ task[n].fault = "scrape not ok"

AiObjects == {AiStoragePath(n) : n \in Numbers}

\* C17: without FIRECRAWL_API_KEY every range-resolve request is answered success=false
\* with an error message and no data, no scrapeAndCacheNumber call is started, and no
\* scraped object or entry is written; without OPENAI_API_KEY every generate request
\* is answered success=false with an error message and the endpoint writes no
\* generated object or entry. The rate-limit log is not written.
C17_MissingCredentialFailsTheRequest ==
  /\ ~env.FIRECRAWL_API_KEY =>
       /\ hpc = "idle"
       /\ Started = {}
       /\ served > 0 =>
            /\ response.sent /\ ~response.success /\ ~response.hasData
            /\ response.error \notin {Undefined, Null, ""}
       /\ storage \subseteq AiObjects
       /\ \A n \in Numbers : cache[n].original_url \in {Null, "ai-generated"}
       /\ rateLimitLog = << >>
  /\ ~env.OPENAI_API_KEY =>
       /\ gen["endpoint"].pc = "idle"
       /\ genServed > 0 =>
            /\ gen["endpoint"].response.sent /\ ~gen["endpoint"].response.success
            /\ gen["endpoint"].response.error \notin {Undefined, Null, ""}
            /\ gen["endpoint"].response.imageUrl = Undefined
       /\ ~smart =>
            /\ storage \cap AiObjects = {}
            /\ \A n \in Numbers : cache[n].original_url # "ai-generated"
       /\ rateLimitLog = << >>

\* with neither credential configured a range-resolve request and a generate request
\* have both been answered
C17_Witness ==
  /\ ~env.FIRECRAWL_API_KEY
  /\ ~env.OPENAI_API_KEY
  /\ served = 1
  /\ genServed = 1
  /\ response.error = "Firecrawl connector not configured"
  /\ gen["endpoint"].response.error = "OPENAI_API_KEY is not configured"

\* ---------------------------------------------------------------------------
\* The client hook on its own: searches, stop requests and the answers of the
\* API, against a configured deployment.

InitClient ==
  /\ Init
  /\ ~smart
  /\ env = Configured

NextClient ==
  \/ \E startNumber \in Numbers, endNumber \in Numbers :
       ScrapeImages(startNumber, endNumber)
  \/ StopScraping
  \/ \E outcome \in ApiOutcomes : BatchReturns(outcome)

SpecClient == InitClient /\ [][NextClient]_vars

\* The same hook where every API call in flight eventually returns or throws.
SpecClientLive ==
  InitClient /\ [][NextClient]_vars /\ WF_vars(\E outcome \in ApiOutcomes : BatchReturns(outcome))

\* ---------------------------------------------------------------------------
\* Cancellation of a running search.

IsAscending(list) ==
  \A k \in 1..(Len(list) - 1) : list[k].number < list[k + 1].number

\* list holds the first Len(list) numbers of the range of the run, in order.
IsRangePrefix(h, list) ==
  \A k \in 1..Len(list) : list[k].number = h.startNumber + k - 1

\* The numbers the run has requested so far.
NumbersIssued(h) ==
  IF h.issued = << >> THEN 0 ELSE h.issued[Len(h.issued)][2] - h.startNumber + 1

\* What the API call in flight answers with, once hook'.outcome tells how it ended.
InFlightData(h, outcome) ==
  IF outcome = "ok" THEN BatchData(h.i, BatchEnd(h)) ELSE << >>

\* C18 (as stated): a search that ended after a stop request holds a prefix of
\* the range in ascending order and has reported no error.
C18_StoppedSearchHoldsPrefixWithoutError ==
  (hook.pc = "idle" /\ hook.cancelledRef)
    => /\ IsRangePrefix(hook, hook.images)
       /\ hook.toast # "Error"

\* C18: once stop is requested while a batch is in flight, no further batch is
\* requested; the answer of the batch in flight ends the run, its results are
\* appended to those gathered before when it answers success, and images then
\* holds, in ascending order, the results of every batch that answered
\* success: a prefix of the range when no batch failed.  The run ends with
\* the notice "Scraping stopped", or with the "Error" toast when the call in
\* flight throws.
C18_CancellationBetweenBatches ==
  [][ (hook.pc = "await" /\ hook.cancelledRef)
        => /\ hook'.issued = hook.issued
           /\ hook'.pc # "await"
                => /\ hook'.pc = "idle"
                   /\ hook'.allResults =
                        hook.allResults \o InFlightData(hook, hook'.outcome)
                   /\ hook'.images = hook'.allResults
                   /\ IsAscending(hook'.images)
                   /\ Len(hook'.images) = NumbersIssued(hook')
                        => IsRangePrefix(hook', hook'.images)
                   /\ hook'.toast = IF hook'.outcome = "threw"
                                    THEN "Error"
                                    ELSE "Scraping stopped" ]_vars

\* A search over more than one batch was stopped during its first batch: the
\* batch was kept and no second one was requested.
C18_Witness ==
  /\ hook.pc = "idle"
  /\ hook.cancelledRef
  /\ hook.toast = "Scraping stopped"
  /\ hook.endNumber >= hook.startNumber + clientBatchSize
  /\ Len(hook.issued) = 1
  /\ Len(hook.images) = clientBatchSize

\* ---------------------------------------------------------------------------
\* The numeral namer.

NamingDomain == 0..1000000

\* The names computed so far for arg, by either variant.
NamesComputed ==
  {slug[k] : k \in DOMAIN slug} \cup {prompt[k] : k \in DOMAIN prompt}

\* C19: for every n of 0..1000000, numberToWord(n) yields a non-empty string,
\* in the slug variant and in the prompt variant.
C19_NameIsNeverEmpty ==
  arg \in NamingDomain => \A name \in NamesComputed : Join(name) # ""

C19_Witness ==
  /\ arg = 1000000
  /\ slug # << >>
  /\ prompt # << >>
  /\ Join(slug[1]) = "1000000"
  /\ Join(prompt[1]) = "One Million"

Last(s) == s[Len(s)]

\* The scale word an exact multiple ends with: k*100 for 1 <= k <= 9, k*1000,
\* k*1000000; << >> when n is no such multiple.
ScaleWordOf(n) ==
  IF n = 0 THEN << >>
  ELSE IF n % 1000000 = 0 THEN <<"Million">>
  ELSE IF n % 1000 = 0 THEN <<"Thousand">>
  ELSE IF n % 100 = 0 /\ n < 1000 THEN <<"Hundred">>
  ELSE << >>

NamedAsStated(n, name) ==
  /\ n = 100 => Join(name) = "One Hundred"
  /\ n = 1000 => Join(name) = "One Thousand"
  /\ n = 21 => Join(name) = "Twenty-one"
  /\ ScaleWordOf(n) # << >> => Last(name) = ScaleWordOf(n)[1]

\* C20 (as stated): numberToWord(100) = "One Hundred", numberToWord(1000) =
\* "One Thousand", numberToWord(21) = "Twenty-one", and the name of an exact
\* multiple of a scale word ends with the scale word, in both variants.
C20_NamesAsStated ==
  \A name \in NamesComputed : NamedAsStated(arg, name)

\* C20: the prompt variant names 100 "One Hundred", 1000 "One Thousand", 21
\* "Twenty-one", and ends the name of every exact multiple with the scale
\* word.  The slug variant joins with underscores, "One_Hundred" and
\* "One_Thousand", names 21 "Twenty-one", ends k*100 (1 <= k <= 9) with
\* "_Hundred", and above 1000 gives the decimal digits.
C20_NamesByVariant ==
  /\ prompt # << >> => NamedAsStated(arg, prompt[1])
  /\ slug # << >> =>
       /\ arg = 100 => Join(slug[1]) = "One_Hundred"
       /\ arg = 1000 => Join(slug[1]) = "One_Thousand"
       /\ arg = 21 => Join(slug[1]) = "Twenty-one"
       /\ (arg % 100 = 0 /\ arg > 0 /\ arg < 1000)
            => Join(slug[1]) = OnesWords[arg \div 100] \o "_Hundred"
       /\ arg > 1000 => Join(slug[1]) = toString(arg)

C20_Witness ==
  /\ arg = 3000
  /\ slug # << >>
  /\ prompt # << >>
  /\ Join(prompt[1]) = "Three Thousand"
  /\ Join(slug[1]) = "3000"

\* ---------------------------------------------------------------------------
\* The extractors called on a page, for a target number.

InitExtract ==
  /\ InitSystem
  /\ ~smart
  /\ env = Configured
  /\ arg \in TargetNumbers
  /\ verdict = << >>
  /\ slug = << >>
  /\ prompt = << >>
  /\ page \in [html : Pages, imageUrl : {<< >>}, validImageUrl : {<< >>}]
  /\ proxy = NoProxy(TRUE)

NextExtract ==
  \/ CallExtractInfoboxImage
  \/ CallExtractValidInfoboxImage

SpecExtract == InitExtract /\ [][NextExtract]_vars

\* ---------------------------------------------------------------------------
\* What the extractors may return.

NonCharacterWords ==
  { <<"fav", "icon">>, <<"icon">>, <<"logo">>, <<"banner">>, <<"placeholder">>,
    <<"avatar">>, <<"badge">>, <<"sprite">> }

Denylisted(imageUrl) ==
  \E word \in NonCharacterWords : includes(lowerCase(imageUrl), word)

\* The URL is served by the content host, from the image tree of the wiki.
FromContentDomain(imageUrl) ==
  /\ Len(imageUrl) > Len(Scheme \o ContentImages)
  /\ SubSeq(imageUrl, 1, Len(Scheme \o ContentImages)) = Scheme \o ContentImages

IsCharacterImage(imageUrl) == ~Denylisted(imageUrl) /\ FromContentDomain(imageUrl)

\* C21: whatever extractInfoboxImage returns, in the range-resolve handler and in
\* the validating revision, matches no word of the non-character denylist and
\* comes from the allow-listed content domain.
C21_ExtractedImageIsCharacterImage ==
  /\ \A k \in DOMAIN page.imageUrl :
       page.imageUrl[k] # NoUrl => IsCharacterImage(page.imageUrl[k])
  /\ \A k \in DOMAIN page.validImageUrl :
       page.validImageUrl[k] # NoUrl => IsCharacterImage(page.validImageUrl[k])

\* ---------------------------------------------------------------------------
\* The image proxy on its own.

InitProxy ==
  /\ InitSystem
  /\ ~smart
  /\ env = Configured
  /\ page = NoPage
  /\ arg = 0
  /\ verdict = << >>
  /\ slug = << >>
  /\ prompt = << >>
  /\ proxy \in {NoProxy(validating) : validating \in BOOLEAN}

NextProxy ==
  \/ \E originAllowed \in BOOLEAN, bodyOk \in BOOLEAN, imageUrl \in ImageUrls :
       ProxyReceive(originAllowed, bodyOk, imageUrl)
  \/ ProxyTick
  \/ TimerFires
  \/ \E outcome \in {"ok", "notOk", "throw"}, contentLength \in ContentLengths :
       FetchReturns(outcome, contentLength)
  \/ \E outcome \in {"ok", "throw", "encodeThrows"}, byteLength \in ImageSizes :
       BodyReturns(outcome, byteLength)

SpecProxy == InitProxy /\ [][NextProxy]_vars

\* ---------------------------------------------------------------------------
\* The image proxy.

\* The host of the URL is an allow-listed image domain or a subdomain of one.
HostOnAllowList(imageUrl) ==
  /\ imageUrl.parses
  /\ \E domain \in ALLOWED_IMAGE_DOMAINS, k \in 0..Len(imageUrl.hostname) :
       SubSeq(imageUrl.hostname, k + 1, Len(imageUrl.hostname)) = domain

\* C22: the proxy issues no outbound fetch for a URL that does not parse or whose
\* host is not on the allow-list, reads no body whose declared length exceeds
\* 10 MiB, and never answers success with more than 10 MiB of image data.
C22_ProxyFailsClosed ==
  /\ proxy.fetched => HostOnAllowList(proxy.imageUrl)
  /\ (proxy.contentLength # << >> /\ proxy.contentLength[1] > MAX_IMAGE_SIZE)
       => proxy.pc # "body" /\ ~proxy.response.success
  /\ proxy.response.success => proxy.byteLength <= MAX_IMAGE_SIZE

\* C23: a request of the validating proxy whose image is not there when the
\* fetch timeout has passed is not left waiting and is not answered with
\* success: it has ended with a failure.
C23_TimeoutBoundsTheDownload ==
  (proxy.validating /\ proxy.fetched /\ proxy.elapsed > FetchTimeout)
    => /\ proxy.pc = "idle"
       /\ ~proxy.response.success

\* ---------------------------------------------------------------------------
\* The same system over a cache index that an earlier scrape has written to:
\* the image of WarmNumber is in the bucket and its entry is in the index.

WarmNumber == FirstNumber + 2

WarmPath == ScrapeStoragePath(WarmNumber, "image/png")

InitWarm ==
  /\ env \in [FIRECRAWL_API_KEY : BOOLEAN, OPENAI_API_KEY : BOOLEAN]
  /\ smart \in BOOLEAN
  /\ cache = [n \in Numbers |->
                IF n = WarmNumber
                THEN [storage_path |-> WarmPath, original_url |-> OriginalImageUrl(n)]
                ELSE NoEntry]
  /\ storage = {WarmPath}
  /\ hpc = "idle"
  /\ req = NoRequest
  /\ cachedMap = [n \in Numbers |-> Null]
  /\ results = << >>
  /\ numbersToScrape = << >>
  /\ i = 0
  /\ task = [n \in Numbers |-> NoTask]
  /\ response = NoResponse
  /\ served = 0
  /\ generations = 0
  /\ batches = 0
  /\ gen = [p \in GenProcs |-> IdleGen]
  /\ genServed = 0
  /\ rateLimitLog = << >>
  /\ now = 0
  /\ rateCheck = NoRateCheck
  /\ hook = InitialHook
  /\ page = NoPage
  /\ proxy = NoProxy(TRUE)
  /\ arg = 0
  /\ verdict = << >>
  /\ slug = << >>
  /\ prompt = << >>

\* The requests of the warm system name short ranges: at most two numbers, less
\* than one batch, so the pause between batches does not occur.
NextWarm ==
  \/ \E lo \in NoisyNumbers, hi \in NoisyNumbers, single \in {Undefined, "true", "false"},
        bodyOk \in BOOLEAN :
       ReceiveRequest(lo, hi, single, env.FIRECRAWL_API_KEY, bodyOk)
  \/ \E readOk \in BOOLEAN : CacheLookupReturns(readOk)
  \/ \E n \in Numbers, outcome \in {"ok", "throw", "notOk", "noImage"} : ScrapeReturns(n, outcome)
  \/ \E n \in Numbers, outcome \in {"ok", "throw", "notOk"}, contentType \in ContentTypes :
       DownloadReturns(n, outcome, contentType)
  \/ \E n \in Numbers, outcome \in {"ok", "error"} : UploadReturns(n, outcome)
  \/ \E n \in Numbers, outcome \in {"ok", "error"} : UpsertReturns(n, outcome)
  \/ BatchCompletes
  \/ AutoGenerateReturns
  \/ \E isNumber \in BOOLEAN, number \in GenNumbers :
       GenReceive(isNumber, number, env.OPENAI_API_KEY)
  \/ \E p \in GenProcs, outcome \in {"ok", "throw", "429", "notOk", "noImage"} :
       GenAIReturns(p, outcome)
  \/ \E p \in GenProcs, outcome \in {"ok", "error"} : GenUploadReturns(p, outcome)
  \/ \E p \in GenProcs, outcome \in {"ok", "error"} : GenUpsertReturns(p, outcome)

SpecWarm == InitWarm /\ [][NextWarm]_vars

\* ---------------------------------------------------------------------------
\* Written locators and served URLs.

\* The numbers the request serves from the cache index.
CacheServed == {n \in Numbers : req # NoRequest /\ n \in Requested /\ cachedMap[n] # Null}

\* The handler sends a successful response in this step.
Responds == hpc # "idle" /\ hpc' = "idle" /\ response'.sent /\ response'.success

\* C24 (as stated): when resolve returns a result served from the cache for n,
\* its imageUrl is the public URL of the locator the cache index holds for n,
\* the one most recently upserted.
C24_ServedUrlIsLatestLocator ==
  [][ Responds =>
        \A n \in CacheServed : \A k \in 1..Len(response'.data) :
          response'.data[k].number = n
            => response'.data[k].imageUrl = getPublicUrl(cache'[n].storage_path) ]_vars

\* C24: a result served from the cache for n carries the public URL of the
\* locator the cache index held for n when the request read it; every locator
\* written to the index, by a scrape or a generation, is written in the step
\* in which the writing request takes the public URL of that same locator as
\* its own answer for n.
C24_ServedUrlIsAWrittenLocator ==
  [][ /\ (hpc = "lookup" /\ hpc' # "lookup")
        => \A n \in Numbers :
             cachedMap'[n] # Null
               => cache[n] # NoEntry /\ cachedMap'[n] = cache[n].storage_path
      /\ Responds
        => \A n \in CacheServed : \A k \in 1..Len(response'.data) :
             response'.data[k].number = n
               => response'.data[k].imageUrl = getPublicUrl(cachedMap[n])
      /\ \A n \in Numbers :
           cache'[n] # cache[n]
             => \/ /\ task[n].stage = "upsert"
                   /\ task'[n].stage = "done"
                   /\ task'[n].result.imageUrl = getPublicUrl(cache'[n].storage_path)
                \/ \E p \in GenProcs :
                     /\ gen[p].pc = "upsert"
                     /\ gen[p].number = n
                     /\ gen'[p].response.success
                     /\ gen'[p].response.imageUrl = getPublicUrl(cache'[n].storage_path)
    ]_vars

\* A request answered a number from the cache with the URL of the locator the index holds.
C24_Witness ==
  /\ Succeeded
  /\ \E n \in CacheServed :
       /\ cache[n].storage_path = cachedMap[n]
       /\ \E k \in DataOf(n) : response.data[k].imageUrl = getPublicUrl(cachedMap[n])

\* ---------------------------------------------------------------------------
\* Provenance of a result.

\* The provenance a caller reads off a result: no image, the aiGenerated
\* flag, the cached flag, or neither flag.
Provenance(r) ==
  IF r.imageUrl = Null THEN "none"
  ELSE IF r.aiGenerated THEN "ai-generated"
  ELSE IF r.cached THEN "cache"
  ELSE "freshly-scraped"

\* The numbers the request did not find in the cache index and answered with
\* an image it scraped.
FreshlyScraped ==
  {n \in Numbers : /\ req # NoRequest
                   /\ n \in Requested
                   /\ cachedMap[n] = Null
                   /\ task[n].stage = "done"
                   /\ task[n].result.imageUrl # Null
                   /\ ~task[n].result.aiGenerated}

\* C25: in a successful response every result has one provenance; a result
\* whose image the request scraped itself is tagged freshly-scraped, which
\* tells it apart from a result served from the cache, and a result without
\* image has provenance none.
C25_FreshScrapeIsTaggedFresh ==
  Succeeded =>
    \A k \in 1..Len(response.data) :
      /\ response.data[k].imageUrl = Null => Provenance(response.data[k]) = "none"
      /\ response.data[k].number \in FreshlyScraped
           => Provenance(response.data[k]) = "freshly-scraped"

\* ---------------------------------------------------------------------------
\* Stored images and the cache index.

\* The numbers for which a request has uploaded an image and answered with
\* the URL of the stored object: a scrape that reached its last return, or a
\* generation that answered success.
StoredNumbers ==
  {n \in Numbers : task[n].stage = "done" /\ task[n].result.cached}
    \cup {gen[p].number : p \in {q \in GenProcs : gen[q].response.sent /\ gen[q].response.success}}

\* C26: once a resolve or generate request has stored an image for n and
\* answered with its URL, the cache index holds an entry for n, so that a
\* later resolve finds n in the index.
C26_StoredNumberIsIndexed ==
  \A n \in StoredNumbers : cache[n] # NoEntry

\* ---------------------------------------------------------------------------
\* Every search ends.

\* The state the finally block leaves behind.
RunEnded == hook.pc = "idle" /\ ~hook.isLoading /\ hook.progress = IdleProgress

\* C27: every invocation of scrapeImages eventually ends with isLoading false
\* and the progress idle, however its API calls end, provided each of them
\* returns or throws; whenever no invocation is running, that is the state.
C27_EverySearchEnds ==
  /\ [](hook.pc = "idle" => RunEnded)
  /\ (hook.pc = "await") ~> RunEnded

\* A search whose second API call threw has ended.
C27_Witness ==
  /\ RunEnded
  /\ Len(hook.issued) = 2
  /\ hook.outcome = "threw"
  /\ hook.toast = "Error"

\* ---------------------------------------------------------------------------
\* The sub-requests of one search.

\* The k-th sub-range of the run: [i, min(i + 4, end)] for i = start + 5 (k - 1).
SubRange(h, k) ==
  << h.startNumber + clientBatchSize * (k - 1),
     Min(h.startNumber + clientBatchSize * (k - 1) + clientBatchSize - 1, h.endNumber) >>

\* C28: during a run of scrapeImages(start, end) the sub-requests issued are
\* the consecutive disjoint sub-ranges [i, min(i + 4, end)] in ascending
\* order, the next one issued only in the step in which the one in flight
\* answers; images never holds two entries for one number; progress.current
\* never decreases while the run lasts and never exceeds progress.total,
\* which is end - start + 1.
C28_SubRequestsInOrder ==
  /\ [](/\ IsAscending(hook.images)
        /\ hook.isLoading
             => /\ \A k \in 1..Len(hook.issued) : hook.issued[k] = SubRange(hook, k)
                /\ hook.issued[Len(hook.issued)][2] <= hook.endNumber
                /\ hook.progress.total = hook.endNumber - hook.startNumber + 1
                /\ hook.progress.current <= hook.progress.total)
  /\ [][ /\ (hook.isLoading /\ hook'.isLoading)
              => hook'.progress.current >= hook.progress.current
         /\ (hook.pc = "await" /\ hook'.issued # hook.issued)
              => /\ hook'.outcome \in {"ok", "failed"}
                 /\ hook'.issued = Append(hook.issued, SubRange(hook, Len(hook.issued) + 1))
                 /\ hook'.issued[Len(hook'.issued)][1] = hook.issued[Len(hook.issued)][2] + 1
       ]_vars

\* The second sub-request of a run is in flight after the first one answered
\* with its five results.
C28_Witness ==
  /\ hook.pc = "await"
  /\ Len(hook.issued) = 2
  /\ hook.issued[2][2] = hook.endNumber
  /\ Len(hook.images) = clientBatchSize
  /\ hook.progress.current = clientBatchSize

\* ---------------------------------------------------------------------------
\* The credential check comes first.

\* C29: without FIRECRAWL_API_KEY the range-resolve handler answers
\* success=false in the step in which the request arrives and never issues
\* the cache query, whatever the cache index holds for the range.
C29_CredentialCheckPrecedesLookup ==
  /\ [](~env.FIRECRAWL_API_KEY => hpc # "lookup" /\ \A n \in Numbers : cachedMap[n] = Null)
  /\ [][ (served' = served + 1 /\ ~env.FIRECRAWL_API_KEY)
           => /\ hpc' = "idle"
              /\ response' = ErrorResponse("Firecrawl connector not configured")
              /\ results' = << >>
              /\ cache' = cache ]_vars

\* A resolve request was refused for the missing credential although the
\* index held the entry of WarmNumber, the one number a request for
\* [WarmNumber, WarmNumber] asks for.
C29_Witness ==
  /\ ~env.FIRECRAWL_API_KEY
  /\ served = 1
  /\ genServed = 0
  /\ hpc = "idle"
  /\ response = ErrorResponse("Firecrawl connector not configured")
  /\ cache[WarmNumber].storage_path = WarmPath
  /\ \A n \in Numbers : cachedMap[n] = Null

\* ---------------------------------------------------------------------------
\* A failed generation writes nothing to the index.

\* The generation p has answered success=false.
GenFailed(p) == gen[p].response.sent /\ ~gen[p].response.success

\* C30: no step of a generate request other than the one that answers
\* success=true changes the cache index; a request that answers
\* success=false, for whatever reason, has created and overwritten no entry.
C30_FailedGenerationLeavesIndex ==
  [][ \A p \in GenProcs :
        (gen'[p] # gen[p] /\ ~(gen'[p].response.sent /\ gen'[p].response.success))
          => cache' = cache ]_vars

\* A generation for WarmNumber failed at the storage upload and the entry an
\* earlier scrape wrote for WarmNumber is still the one in the index.
C30_Witness ==
  /\ GenFailed("endpoint")
  /\ gen["endpoint"].number = WarmNumber
  /\ gen["endpoint"].response.error = "Failed to save image"
  /\ served = 0
  /\ cache[WarmNumber].storage_path = WarmPath

====
